---- MODULE Spec2Model ----
(***************************************************************************)
(* Route-guard-and-navigation pipeline of the uni-app router utilities.    *)
(*                                                                         *)
(*   guards.ts  : the process-wide config (guard list, log flag, history)  *)
(*                and executeGuards / recordHistory                        *)
(*   router.ts  : buildUrl, navigate (the guarded variant)                 *)
(*                                                                         *)
(* Strings are sequences of one-character strings, so that buildUrl and    *)
(* encodeURIComponent are computed character by character.                 *)
(*                                                                         *)
(* executeGuards iterates the array object config.guards referred to when  *)
(* its loop started.  addGuard and removeGuard change that object in       *)
(* place; clearGuards makes config.guards refer to a new array, and from   *)
(* then on nothing but the running loops refers to the replaced one, which *)
(* therefore never changes again: a loop is either `live` (it iterates the *)
(* installed array) or holds the replaced array as its `own`.              *)
(*                                                                         *)
(* Spec follows one navigate() call step by step.  Everything else that    *)
(* runs while the call is suspended (guards with side effects, other       *)
(* callers, other navigations) acts on the call only through the shared    *)
(* config, so it appears as the registry operations, setLogEnabled,        *)
(* clearHistory and recordHistory taking steps of their own.               *)
(*                                                                         *)
(* SpecHistory follows an array handed out by getHistory and what its      *)
(* holder and the buffer do to each other.  SpecDirect follows one call of *)
(* an entry point that reaches the host without the guarded navigate       *)
(* (navigateBack, navigateBackTo, and navigate of the variant without      *)
(* guards), and openExternalUrl, on every page stack up to MaxDepth.       *)
(*                                                                         *)
(* SpecLive follows one call and the registry with every guard settling,   *)
(* every continuation running and the host reporting.  SpecPair follows    *)
(* two navigate() calls in flight at once.  SpecTwin runs the router       *)
(* twice on the same operations with the log flag set independently in     *)
(* each run.  SpecUrl computes buildUrl and parseUrlParams (page.ts) on    *)
(* small inputs, and SpecStorage follows the cached storage module         *)
(* (storage.ts) over a host storage that can fail, SpecStoragePath with    *)
(* setPath among its operations.  SpecBack puts a guarded navigate()       *)
(* call next to a call of navigateBack, and SpecRegistry takes             *)
(* registries of MaxRegistered guards apart with removeGuard.              *)
(***************************************************************************)
EXTENDS Integers, Sequences, FiniteSets, TLC

VARIABLES
    guards,     \* config.guards: the array currently installed
    enableLog,  \* config.enableLog
    history,    \* config.history
    calls,      \* one record per observed navigate() call (its locals and
                \* position)
    recorded,   \* every URL handed to recordHistory since the last
                \* clearHistory (observer of the buffer's input stream)
    nDirect,    \* number of recordHistory calls made by other code so far
    snap,       \* the array last returned by getHistory, as its caller holds it
    pages,      \* the host's page stack (getCurrentPages), bottom first
    direct,     \* the observed call of an entry point that talks to the host
                \* without going through the guarded navigate
    urlJob,     \* one buildUrl / parseUrlParams computation: input and results
    runs,       \* two runs of the router fed the same operations, one record
                \* of config, call and console each
    store,      \* the host's key-value storage (uni.*Storage*)
    cache,      \* storage.ts: the memory cache (a Map)
    stats,      \* storage.ts: cache hit / miss counters
    pinned,     \* per key, the value of the last storage.set that succeeded,
                \* while no later set, remove, clear or invalidate touched it
    lastOp      \* the storage operation performed last, and how it ended

\* the variables of the router, and the others
routerVars == <<guards, enableLog, history, calls, recorded, nDirect, snap, pages, direct>>
aux == <<urlJob, runs, store, cache, stats, pinned, lastOp>>

vars == <<guards, enableLog, history, calls, recorded, nDirect, snap, pages, direct,
          urlJob, runs, store, cache, stats, pinned, lastOp>>

----------------------------------------------------------------------------
(* Bounds *)

MaxGuards  == 2     \* length of a guard array
MaxDepth   == 3     \* depth of the page stack
MaxGets    == 2     \* storage.get calls counted by stats since the last clear
MaxParams  == 2     \* entries of a params object given to buildUrl
MaxRecords == 1     \* recordHistory calls made by other code than the
                    \* observed navigate() call
MaxRegistered == 5  \* registrations in a registry removeGuard is followed on

(* Program constant *)

maxHistorySize == 50

----------------------------------------------------------------------------
(* Small utilities *)

Last(s) == s[Len(s)]

RECURSIVE Flatten(_)
Flatten(ss) == IF ss = <<>> THEN <<>> ELSE Head(ss) \o Flatten(Tail(ss))

RECURSIVE Join(_, _)
Join(ss, sep) ==
    IF ss = <<>> THEN <<>>
    ELSE IF Len(ss) = 1 THEN ss[1]
    ELSE ss[1] \o sep \o Join(Tail(ss), sep)

Includes(s, ch) == \E i \in 1..Len(s) : s[i] = ch

IndexOf(s, x) ==
    IF \E i \in 1..Len(s) : s[i] = x
    THEN CHOOSE i \in 1..Len(s) : s[i] = x /\ \A j \in 1..(i - 1) : s[j] # x
    ELSE 0

RemoveAt(s, i) == SubSeq(s, 1, i - 1) \o SubSeq(s, i + 1, Len(s))

----------------------------------------------------------------------------
(* JavaScript value conversions used by buildUrl *)

DigitChar(d) == <<"0", "1", "2", "3", "4", "5", "6", "7", "8", "9">>[d + 1]

RECURSIVE NatToStr(_)
NatToStr(n) ==
    IF n < 10 THEN <<DigitChar(n)>>
    ELSE NatToStr(n \div 10) \o <<DigitChar(n % 10)>>

\* String(value) for the primitive kinds
StringOf(v) ==
    CASE v.kind = "string"  -> v.s
      [] v.kind = "number"  -> NatToStr(v.n)
      [] v.kind = "boolean" -> IF v.b THEN <<"t", "r", "u", "e">>
                                      ELSE <<"f", "a", "l", "s", "e">>

\* JSON.stringify(value) for an array of numbers
JsonStringify(v) ==
    <<"[">> \o Join([i \in 1..Len(v.items) |-> NatToStr(v.items[i])], <<",">>)
            \o <<"]">>

TypeofIsObject(v) == v.kind = "array"

Unreserved ==
    {"a", "b", "c", "d", "e", "f", "g", "h", "i", "j", "k", "l", "m", "n",
     "o", "p", "q", "r", "s", "t", "u", "v", "w", "x", "y", "z",
     "0", "1", "2", "3", "4", "5", "6", "7", "8", "9",
     "-", "_", ".", "!", "~", "*", "'", "(", ")"}

\* percent-encoding of one character
EncodeChar(ch) ==
    IF ch \in Unreserved THEN <<ch>>
    ELSE CASE ch = " " -> <<"%", "2", "0">>
           [] ch = "&" -> <<"%", "2", "6">>
           [] ch = "," -> <<"%", "2", "C">>
           [] ch = "/" -> <<"%", "2", "F">>
           [] ch = ":" -> <<"%", "3", "A">>
           [] ch = "=" -> <<"%", "3", "D">>
           [] ch = "?" -> <<"%", "3", "F">>
           [] ch = "[" -> <<"%", "5", "B">>
           [] ch = "]" -> <<"%", "5", "D">>

encodeURIComponent(s) == Flatten([i \in 1..Len(s) |-> EncodeChar(s[i])])

\* faulty variant: the query block is always introduced by '?'
buildUrl_AlwaysQuestion(url, params) ==
    IF params = <<>> THEN url
    ELSE LET pair(i) ==
                 params[i].key \o <<"=">> \o
                 encodeURIComponent(IF TypeofIsObject(params[i].value)
                                    THEN JsonStringify(params[i].value)
                                    ELSE StringOf(params[i].value))
             queryString == Join([i \in 1..Len(params) |-> pair(i)], <<"&">>)
         IN  url \o <<"?">> \o queryString

\* params is the sequence of [key, value] entries, in Object.entries order
buildUrl(url, params) ==
    IF params = <<>> THEN url
    ELSE LET pair(i) ==
                 params[i].key \o <<"=">> \o
                 encodeURIComponent(IF TypeofIsObject(params[i].value)
                                    THEN JsonStringify(params[i].value)
                                    ELSE StringOf(params[i].value))
             queryString == Join([i \in 1..Len(params) |-> pair(i)], <<"&">>)
         IN  IF Includes(url, "?") THEN url \o <<"&">> \o queryString
                                   ELSE url \o <<"?">> \o queryString

----------------------------------------------------------------------------
(* The inputs: guard functions, host errors and navigate requests *)

GuardIds == {"g1", "g2"}

\* what an awaited guard can settle with; a guard can also throw before
\* returning anything ("throw")
GuardOutcomes == {"true", "false", "reject"}

HostErrors == {"hostErrA", "hostErrB"}

KnownTypes == {"navigateTo", "redirectTo", "reLaunch", "switchTab", "navigateBack"}

PathDetail == <<"/", "p", "a", "g", "e", "s", "/", "d", "e", "t", "a", "i", "l">>
PathHome   == <<"/", "p", "a", "g", "e", "s", "/", "h", "o", "m", "e">>
PathQuery  == <<"/", "p", "a", "g", "e", "s", "/", "l", "i", "s", "t", "?", "x", "=", "1">>
PathItem   == <<"/", "i">>

KeyId   == <<"i", "d">>
KeyTab  == <<"t", "a", "b">>
KeyIds  == <<"i", "d", "s">>

Num(n)   == [kind |-> "number", n |-> n]
Str(s)   == [kind |-> "string", s |-> s]
Arr(ns)  == [kind |-> "array", items |-> ns]

\* the NavigateOptions a caller may pass; type "undefined" is an omitted type
Requests ==
    << [url |-> PathDetail, type |-> "undefined",
        params |-> <<[key |-> KeyId, value |-> Num(123)]>>],
       [url |-> PathHome, type |-> "switchTab",
        params |-> <<[key |-> KeyTab, value |-> Str(<<"a", " ", "b">>)]>>],
       [url |-> PathQuery, type |-> "redirectTo",
        params |-> <<[key |-> KeyIds, value |-> Arr(<<1, 2>>)],
                     [key |-> KeyId, value |-> Num(7)]>>],
       [url |-> PathHome, type |-> "reLaunch", params |-> <<>>],
       [url |-> PathDetail, type |-> "navigateBack",
        params |-> <<[key |-> KeyTab, value |-> Str(<<"b">>)]>>],
       [url |-> PathDetail, type |-> "popup", params |-> <<>>] >>

ReqIds  == 1..Len(Requests)

\* the navigate() calls followed step by step
Callers == {"c1"}
CallIds == DOMAIN calls

\* const { type = 'navigateTo' } = options
TypeOf(r) == IF Requests[r].type = "undefined" THEN "navigateTo"
             ELSE Requests[r].type

FullUrlOf(r) == buildUrl(Requests[r].url, Requests[r].params)

\* the URLs recordHistory is given by other code
DirectUrls == {PathQuery}

----------------------------------------------------------------------------
(* page.ts: parseUrlParams, and the buildUrl computations followed *)

\* s.split(sep) for a one-character separator: the pieces between the
\* separators, at least one
RECURSIVE Split(_, _)
Split(s, sep) ==
    IF ~Includes(s, sep) THEN <<s>>
    ELSE LET i == IndexOf(s, sep)
         IN  <<SubSeq(s, 1, i - 1)>> \o Split(SubSeq(s, i + 1, Len(s)), sep)

\* the character of an escape %XY, for the escapes EncodeChar produces
DecodeEscape(x, y) ==
    CASE <<x, y>> = <<"2", "0">> -> " "
      [] <<x, y>> = <<"2", "6">> -> "&"
      [] <<x, y>> = <<"2", "C">> -> ","
      [] <<x, y>> = <<"2", "F">> -> "/"
      [] <<x, y>> = <<"3", "A">> -> ":"
      [] <<x, y>> = <<"3", "D">> -> "="
      [] <<x, y>> = <<"3", "F">> -> "?"
      [] <<x, y>> = <<"5", "B">> -> "["
      [] <<x, y>> = <<"5", "D">> -> "]"

RECURSIVE decodeURIComponent(_)
decodeURIComponent(s) ==
    IF s = <<>> THEN <<>>
    ELSE IF Head(s) = "%"
    THEN <<DecodeEscape(s[2], s[3])>> \o decodeURIComponent(SubSeq(s, 4, Len(s)))
    ELSE <<Head(s)>> \o decodeURIComponent(Tail(s))

Digits == {"0", "1", "2", "3", "4", "5", "6", "7", "8", "9"}

\* JSON number grammar, for unsigned integers: no leading zero
IsJsonNumber(t) ==
    /\ t # <<>>
    /\ \A i \in 1..Len(t) : t[i] \in Digits
    /\ (Len(t) > 1 => t[1] # "0")

\* a JSON array of unsigned integers
IsJsonNumberArray(t) ==
    /\ Len(t) >= 2
    /\ t[1] = "["
    /\ t[Len(t)] = "]"
    /\ LET inner == SubSeq(t, 2, Len(t) - 1)
       IN  inner = <<>> \/ \A i \in 1..Len(Split(inner, ",")) : IsJsonNumber(Split(inner, ",")[i])

JsonLiterals ==
    {<<"t", "r", "u", "e">>, <<"f", "a", "l", "s", "e">>, <<"n", "u", "l", "l">>}

\* JSON.parse(t) for texts made of letters, digits, spaces, brackets and
\* commas: the kind of the value and its text, or a SyntaxError
JsonParse(t) ==
    IF IsJsonNumber(t) THEN [ok |-> TRUE, kind |-> "number", text |-> t]
    ELSE IF IsJsonNumberArray(t) THEN [ok |-> TRUE, kind |-> "array", text |-> t]
    ELSE IF t \in JsonLiterals THEN [ok |-> TRUE, kind |-> "literal", text |-> t]
    ELSE [ok |-> FALSE, kind |-> "string", text |-> t]

\* params[key] = value on an object kept as its sequence of entries
PutEntry(params, key, value) ==
    IF \E i \in 1..Len(params) : params[i].key = key
    THEN [i \in 1..Len(params) |->
             IF params[i].key = key THEN [params[i] EXCEPT !.value = value]
             ELSE params[i]]
    ELSE Append(params, [key |-> key, value |-> value])

\* decodeURIComponent(undefined) decodes the string "undefined"
Undefined == <<"u", "n", "d", "e", "f", "i", "n", "e", "d">>

\* the body of the forEach: one pair of the query string
ParsePair(params, pair) ==
    LET parts == Split(pair, "=")
        key   == parts[1]
        value == IF Len(parts) >= 2 THEN parts[2] ELSE Undefined
        text  == decodeURIComponent(value)
        json  == JsonParse(text)
    IN  IF key = <<>> THEN params
        ELSE PutEntry(params, key, [kind |-> json.kind, text |-> text])

RECURSIVE ParsePairs(_, _)
ParsePairs(params, pairs) ==
    IF pairs = <<>> THEN params
    ELSE ParsePairs(ParsePair(params, Head(pairs)), Tail(pairs))

\* parseUrlParams(url): the entries of the returned object, each value as
\* its kind and text
parseUrlParams(url) ==
    LET queryIndex == IndexOf(url, "?")
    IN  IF queryIndex = 0 THEN <<>>
        ELSE ParsePairs(<<>>, Split(SubSeq(url, queryIndex + 1, Len(url)), "&"))

\* the entries params objects are made of
KeyQ    == <<"q">>
KeyPair == <<"a", "=", "b">>
Entries ==
    << [key |-> KeyId,  value |-> Num(123)],
       [key |-> KeyTab, value |-> Str(<<"a", " ", "b">>)],
       [key |-> KeyIds, value |-> Arr(<<1, 2>>)],
       [key |-> KeyId,  value |-> Str(<<"7">>)],
       [key |-> KeyQ,   value |-> Str(<<>>)],
       [key |-> KeyPair, value |-> Num(1)] >>

\* a params object: the positions in Entries of its entries, in Object.entries
\* order; its keys are distinct
ParamLists ==
    {ix \in UNION {[1..n -> 1..Len(Entries)] : n \in 0..MaxParams} :
        \A i, j \in 1..Len(ix) : i # j => Entries[ix[i]].key # Entries[ix[j]].key}

ParamsOf(ix) == [i \in 1..Len(ix) |-> Entries[ix[i]]]

\* the url arguments of buildUrl
UrlPaths == {PathDetail, PathQuery, PathItem}

NoJob == [pc |-> "none", path |-> <<>>, entries |-> <<>>, built |-> <<>>, parsed |-> <<>>]

----------------------------------------------------------------------------
(* guards.ts *)

\* faulty variants of recordHistory: the push is missing; the shift is
\* missing; the newest entry is dropped instead of the oldest
recordHistory_NoPush(h, url) == h

recordHistory_NoShift(h, url) == Append(h, url)

recordHistory_Pop(h, url) ==
    LET pushed == Append(h, url)
    IN  IF Len(pushed) > maxHistorySize THEN SubSeq(pushed, 1, Len(pushed) - 1)
        ELSE pushed

\* recordHistory(url): push, then shift once when over the capacity
recordHistory(h, url) ==
    LET pushed == Append(h, url)
    IN  IF Len(pushed) > maxHistorySize THEN Tail(pushed) ELSE pushed

\* faulty variants of the loop body: no `return false` after a falsy result;
\* no try/catch
OnGuardResult_NoReturn(outcome) ==
    CASE outcome = "true"   -> "next"
      [] outcome = "false"  -> "next"
      [] outcome = "reject" -> "false"
      [] outcome = "throw"  -> "false"

OnGuardResult_NoCatch(outcome) ==
    CASE outcome = "true"   -> "next"
      [] outcome = "false"  -> "false"
      [] outcome = "reject" -> "threw"
      [] outcome = "throw"  -> "threw"

\* the try/catch around one guard in executeGuards: what the loop does with
\* a guard's outcome: "next" (go on), or return "false"; "threw" would be
\* an exception leaving executeGuards
OnGuardResult(outcome) ==
    CASE outcome = "true"   -> "next"
      [] outcome = "false"  -> "false"
      [] outcome = "reject" -> "false"
      [] outcome = "throw"  -> "false"

\* faulty variant: the guard's result is not awaited
AwaitsGuard_Missing == FALSE

\* `await guard(...)`: the loop suspends until the guard it called settles
AwaitsGuard == TRUE

\* executeGuards has returned v: its iterator is gone
Returned(call, v) ==
    [call EXCEPT !.verdict = v, !.pc = "evaluated",
                 !.live = FALSE, !.own = <<>>, !.idx = 0]

\* The for-of loop of executeGuards standing at position idx of the array a
\* it iterates (the array's length and elements are read at each step).  It
\* runs until it suspends at a guard or returns.  syncThrow: the guard
\* called at idx throws instead of returning.
RECURSIVE Loop(_, _, _, _)
Loop(call, a, idx, syncThrow) ==
    IF idx > Len(a)
    THEN Returned(call, "true")
    ELSE IF syncThrow
    THEN LET c1 == [call EXCEPT !.idx = idx,
                                !.invoked = Append(@, a[idx]),
                                !.results = Append(@, "throw")]
             r  == OnGuardResult("throw")
         IN  IF r = "next" THEN Loop(c1, a, idx + 1, FALSE)
             ELSE Returned(c1, r)
    ELSE LET c1 == [call EXCEPT !.idx = idx,
                                !.invoked = Append(@, a[idx]),
                                !.pending = @ \cup {idx}]
         IN  IF AwaitsGuard THEN [c1 EXCEPT !.pc = "guard"]
             ELSE Loop(c1, a, idx + 1, FALSE)

\* the array the loop of a call iterates
ArrayOf(call) == IF call.live THEN guards ELSE call.own

\* the process-wide config object (its observable fields)
Config == [guards |-> guards, enableLog |-> enableLog, history |-> history]

\* faulty variant: a guard already registered is not registered again
addGuard_Dedup(cfg, g) ==
    IF IndexOf(cfg.guards, g) > 0 THEN cfg ELSE [cfg EXCEPT !.guards = Append(@, g)]

\* addGuard(guard): the config it leaves behind (config.guards.push(guard))
addGuard(cfg, g) == [cfg EXCEPT !.guards = Append(@, g)]

\* faulty variant: splice is called with whatever indexOf returned, and
\* splice(-1, 1) removes the last element
removeGuard_NoCheck(cfg, g) ==
    LET index == IndexOf(cfg.guards, g)
    IN  IF index > 0 THEN [cfg EXCEPT !.guards = RemoveAt(@, index)]
        ELSE IF cfg.guards = <<>> THEN cfg
        ELSE [cfg EXCEPT !.guards = SubSeq(@, 1, Len(@) - 1)]

\* faulty variant: the latest registration is the one removed (lastIndexOf)
removeGuard_Last(cfg, g) ==
    LET hits == {i \in 1..Len(cfg.guards) : cfg.guards[i] = g}
    IN  IF hits = {} THEN cfg
        ELSE [cfg EXCEPT !.guards = RemoveAt(@, CHOOSE i \in hits : \A j \in hits : j <= i)]

\* removeGuard(guard): the config it leaves behind
removeGuard(cfg, g) ==
    LET index == IndexOf(cfg.guards, g)
    IN  IF index > 0 THEN [cfg EXCEPT !.guards = RemoveAt(@, index)] ELSE cfg

\* clearHistory(): the config it leaves behind
clearHistory(cfg) == [cfg EXCEPT !.history = <<>>]

\* faulty variant: the buffer's own array is returned
getHistory_Live(h) == [alias |-> TRUE, value |-> h]

\* getHistory(): a new array with the buffer's elements; `alias` tells whether
\* the returned array is the object config.history refers to
getHistory(h) == [alias |-> FALSE, value |-> h]

\* no array has been returned yet
NoSnap == [held |-> FALSE, alias |-> FALSE, value |-> <<>>, taken |-> <<>>,
           mutated |-> FALSE]

\* what the holder of a returned array finds in it once the buffer's array
\* holds h: something else only if both are the same object
Seen(sn, h) == IF sn.alias THEN [sn EXCEPT !.value = h] ELSE sn

\* what the caller pushes onto the array it was given
CallerEntry == <<"x">>

----------------------------------------------------------------------------
(* router.ts: navigate *)

NoCall ==
    [pc |-> "idle", req |-> 0, fullUrl |-> <<>>, live |-> FALSE, own |-> <<>>,
     idx |-> 0, pending |-> {}, invoked |-> <<>>, results |-> <<>>, verdict |-> "none",
     promise |-> "none", reason |-> "", cbs |-> <<>>, hostCalls |-> <<>>,
     host |-> "none", hostErr |-> ""]

\* callback invocations seen by the caller
CbSuccess   == [cb |-> "success", arg |-> ""]
CbFail(e)   == [cb |-> "fail", arg |-> e]
CbComplete  == [cb |-> "complete", arg |-> ""]

\* faulty variant: the verdict is ignored
CanNavigate_Always(verdict) == TRUE

\* `if (!canNavigate)`
CanNavigate(verdict) == verdict = "true"

\* how the promise of the async function navigate stands once its body has
\* run to the end of the guard-rejected branch (a plain `return`)
PromiseAfterVeto == [promise |-> "fulfilled", reason |-> ""]

\* ... and once the switch has been executed: the body ends without waiting
\* for the host's callbacks
PromiseAfterDispatch == [promise |-> "fulfilled", reason |-> ""]

\* faulty variant: the host's error is replaced by a message of the router's
FailForwarded_Wrapped(error) == "NavigationFailed"

\* uniOptions.fail: `fail?.(error)` after console.error (lines 108-111)
FailForwarded(error) == error

\* what options.fail receives when the host reports `error`: switchTab and
\* navigateBack are given the caller's fail itself, the others uniOptions.fail
FailArg(type, error) ==
    IF type \in {"navigateTo", "redirectTo", "reLaunch"} THEN FailForwarded(error)
    ELSE error

\* faulty variant: switchTab is given the built URL like the others
HostCallFor_TabFullUrl(type, url, fullUrl) ==
    CASE type \in {"navigateTo", "redirectTo", "reLaunch", "switchTab"} ->
             [prim |-> type, hasUrl |-> TRUE, url |-> fullUrl, delta |-> 0]
      [] type = "navigateBack" ->
             [prim |-> type, hasUrl |-> FALSE, url |-> <<>>, delta |-> 1]

\* faulty variant: redirectTo and reLaunch open a new page
HostCallFor_AlwaysOpen(type, url, fullUrl) ==
    CASE type \in {"navigateTo", "redirectTo", "reLaunch"} ->
             [prim |-> "navigateTo", hasUrl |-> TRUE, url |-> fullUrl, delta |-> 0]
      [] type = "switchTab" ->
             [prim |-> type, hasUrl |-> TRUE, url |-> url, delta |-> 0]
      [] type = "navigateBack" ->
             [prim |-> type, hasUrl |-> FALSE, url |-> <<>>, delta |-> 1]

\* the argument handed to the host primitive for a transition type
HostCallFor(type, url, fullUrl) ==
    CASE type \in {"navigateTo", "redirectTo", "reLaunch"} ->
             [prim |-> type, hasUrl |-> TRUE, url |-> fullUrl, delta |-> 0]
      [] type = "switchTab" ->
             [prim |-> type, hasUrl |-> TRUE, url |-> url, delta |-> 0]
      [] type = "navigateBack" ->
             [prim |-> type, hasUrl |-> FALSE, url |-> <<>>, delta |-> 1]

\* faulty variant: the built URL is kept where every call in flight can
\* overwrite it, so a call records the URL of a call that started after it
RecordedUrl_Shared(c) ==
    LET later == {d \in CallIds \ {c} : calls[d].pc # "idle"}
    IN  IF later = {} THEN calls[c].fullUrl
        ELSE calls[CHOOSE d \in later : TRUE].fullUrl

\* recordHistory(fullUrl): fullUrl is a const local to the call (line 84)
RecordedUrl(c) == calls[c].fullUrl

\* faulty variant: the guard-rejected branch returns without complete?.()
Vetoed_NoComplete(call) ==
    [call EXCEPT !.cbs = @ \o <<CbFail("GuardRejected")>>,
                 !.promise = PromiseAfterVeto.promise,
                 !.reason = PromiseAfterVeto.reason,
                 !.pc = "done"]

\* lines 89-93
Vetoed(call) ==
    [call EXCEPT !.cbs = @ \o <<CbFail("GuardRejected"), CbComplete>>,
                 !.promise = PromiseAfterVeto.promise,
                 !.reason = PromiseAfterVeto.reason,
                 !.pc = "done"]

\* faulty variant: an unknown type is dispatched like the default type
Dispatched_Default(call) ==
    LET type == IF TypeOf(call.req) \in KnownTypes THEN TypeOf(call.req) ELSE "navigateTo"
    IN  [call EXCEPT !.hostCalls = Append(@, HostCallFor(type, Requests[call.req].url,
                                                        call.fullUrl)),
                     !.host = "pending",
                     !.promise = PromiseAfterDispatch.promise,
                     !.reason = PromiseAfterDispatch.reason,
                     !.pc = "dispatched"]

\* lines 99-141
Dispatched(call) ==
    IF TypeOf(call.req) \in KnownTypes
    THEN [call EXCEPT !.hostCalls = Append(@, HostCallFor(TypeOf(call.req),
                                                  Requests[call.req].url,
                                                  call.fullUrl)),
                      !.host = "pending",
                      !.promise = PromiseAfterDispatch.promise,
                      !.reason = PromiseAfterDispatch.reason,
                      !.pc = "dispatched"]
    ELSE [call EXCEPT !.cbs = @ \o <<CbFail("InvalidTransitionKind"), CbComplete>>,
                      !.promise = PromiseAfterDispatch.promise,
                      !.reason = PromiseAfterDispatch.reason,
                      !.pc = "done"]

\* faulty variant: a failed dispatch is submitted to the host once more
HostFailed_Retry(call, e) ==
    IF Len(call.hostCalls) < 2
    THEN [call EXCEPT !.hostCalls = Append(@, @[1]), !.hostErr = e]
    ELSE [call EXCEPT !.host = "fail",
                      !.hostErr = e,
                      !.cbs = @ \o <<CbFail(FailArg(TypeOf(call.req), e)), CbComplete>>,
                      !.pc = "done"]

\* the host reported the error e: uniOptions.fail and uniOptions.complete run
\* and the call is over
HostFailed(call, e) ==
    [call EXCEPT !.host = "fail",
                 !.hostErr = e,
                 !.cbs = @ \o <<CbFail(FailArg(TypeOf(call.req), e)), CbComplete>>,
                 !.pc = "done"]

----------------------------------------------------------------------------
(* guards.ts and router.ts with their log calls, as functions of one run *)

\* One run of the router: its config, its navigate call, and the line the
\* handler that ran last gave to console.log (none: <<>>).  The operators
\* below take a run to the run the handler leaves behind.
IdleRun ==
    [guards |-> <<>>, enableLog |-> FALSE, history |-> <<>>, call |-> NoCall,
     console |-> <<>>]

Twins == {"a", "b"}

NoRuns == [x \in Twins |-> IdleRun]

\* a handler starts: nothing printed by it yet
Quiet(w) == [w EXCEPT !.console = <<>>]

\* the messages given to log
LogAddGuard     == <<"a", "d", "d">>
LogRemoveGuard  == <<"r", "e", "m", "o", "v", "e">>
LogClearGuards  == <<"c", "l", "e", "a", "r", "G">>
LogClearHistory == <<"c", "l", "e", "a", "r", "H">>
LogVeto         == <<"v", "e", "t", "o">>
LogNavigate     == <<"g", "o">>
LogSuccess      == <<"o", "k">>

\* faulty variant: the message is also kept in the history buffer
log_IntoHistory(w, message) ==
    IF w.enableLog
    THEN [w EXCEPT !.console = message, !.history = Append(@, message)]
    ELSE w

\* log(message, data)
log(w, message) ==
    IF w.enableLog THEN [w EXCEPT !.console = message] ELSE w

run_addGuard(w, g) == log(addGuard(w, g), LogAddGuard)

run_removeGuard(w, g) ==
    IF IndexOf(w.guards, g) > 0 THEN log(removeGuard(w, g), LogRemoveGuard) ELSE w

run_clearGuards(w) ==
    log([w EXCEPT !.guards = <<>>,
                  !.call = IF @.pc = "guard" /\ @.live
                           THEN [@ EXCEPT !.live = FALSE, !.own = w.guards]
                           ELSE @],
        LogClearGuards)

run_setLogEnabled(w, enabled) == [w EXCEPT !.enableLog = enabled]

run_clearHistory(w) == log(clearHistory(w), LogClearHistory)

\* navigate up to its first suspension
run_navigate(w, r, syncThrow) ==
    LET started == [NoCall EXCEPT !.req = r,
                                  !.fullUrl = FullUrlOf(r),
                                  !.live = TRUE,
                                  !.promise = "pending"]
    IN  [w EXCEPT !.call = Loop(started, w.guards, 1, syncThrow)]

\* the guard called at position i settles and executeGuards goes on; a falsy
\* result is logged before `return false`
run_guardSettle(w, i, outcome, syncThrow) ==
    LET call == w.call
        a    == IF call.live THEN w.guards ELSE call.own
        c1   == [call EXCEPT !.pending = @ \ {i},
                             !.results = Append(@, outcome)]
        r    == OnGuardResult(outcome)
        w1   == [w EXCEPT !.call =
                    IF call.pc # "guard" THEN c1
                    ELSE IF r = "next" THEN Loop(c1, a, call.idx + 1, syncThrow)
                    ELSE Returned(c1, r)]
    IN  IF call.pc = "guard" /\ outcome = "false" THEN log(w1, LogVeto) ELSE w1

\* navigate from the verdict to its end
run_resume(w) ==
    LET call == [w.call EXCEPT !.invoked = <<>>, !.results = <<>>]
    IN  IF call.verdict = "threw"
        THEN [w EXCEPT !.call = [call EXCEPT !.promise = "rejected",
                                             !.reason = "GuardError",
                                             !.pc = "done"]]
        ELSE IF ~CanNavigate(call.verdict)
        THEN [w EXCEPT !.call = Vetoed(call)]
        ELSE LET w1 == [w EXCEPT !.history = recordHistory(@, call.fullUrl)]
                 w2 == log(w1, LogNavigate)
             IN  [w2 EXCEPT !.call = Dispatched(call)]

\* uniOptions.success: log, then success?.(); then complete
run_hostSuccess(w) ==
    LET w1 == log(w, LogSuccess)
    IN  [w1 EXCEPT !.call.host = "success",
                   !.call.cbs = @ \o <<CbSuccess, CbComplete>>,
                   !.call.pc = "done"]

run_hostFail(w, e) == [w EXCEPT !.call = HostFailed(@, e)]

----------------------------------------------------------------------------
(* router.ts: navigateBack, navigateBackTo; the unguarded navigate *)

\* page.route of a page: its path without the leading slash
RouteHome   == Tail(PathHome)
RouteDetail == Tail(PathDetail)
RouteItem   == Tail(PathItem)
Routes      == {RouteHome, RouteDetail, RouteItem}

\* getCurrentPages(): the routes of the stacked pages, bottom first
PageStacks == UNION {[1..n -> Routes] : n \in 0..MaxDepth}

\* the url arguments of navigateBackTo: the path of each route, and one
\* spelled without its leading slash
BackTargets == {PathHome, PathDetail, PathItem, RouteHome}

\* the options of navigateBack: absent, or with a delta
BackOptions ==
    {[given |-> FALSE, delta |-> 0]} \cup {[given |-> TRUE, delta |-> d] : d \in 0..MaxDepth}

NoDirect ==
    [pc |-> "idle", entry |-> "none", req |-> 0, target |-> <<>>,
     opt |-> [given |-> FALSE, delta |-> 0],
     ext |-> [platform |-> [IS_H5 |-> FALSE, IS_MP |-> FALSE], mode |-> "undefined",
              webviewPath |-> <<>>],
     promise |-> "none", reason |-> "", cbs |-> <<>>, hostCalls |-> <<>>,
     host |-> "none", hostErr |-> ""]

\* faulty variant: no default for an omitted delta
DeltaOf_NoDefault(o) == o.delta

\* `const { delta = 1, ... } = options || {}`
DeltaOf(o) == IF o.given THEN o.delta ELSE 1

\* uni.navigateBack({ delta, ... })
BackCall(delta) == [prim |-> "navigateBack", hasUrl |-> FALSE, url |-> <<>>, delta |-> delta]

\* faulty variant: the last match is taken (findLastIndex)
findIndex_Last(ps, url) ==
    LET hits == {i \in 1..Len(ps) : <<"/">> \o ps[i] = url}
    IN  IF hits = {} THEN -1
        ELSE (CHOOSE i \in hits : \A j \in hits : j <= i) - 1

\* pages.findIndex(page => `/${page.route}` === url): the 0-based index of the
\* first match, -1 without one
findIndex(ps, url) ==
    LET hits == {i \in 1..Len(ps) : <<"/">> \o ps[i] = url}
    IN  IF hits = {} THEN -1
        ELSE (CHOOSE i \in hits : \A j \in hits : i <= j) - 1

\* faulty variant: the missing target goes unnoticed
IsMissing_Never(targetIndex) == FALSE

\* `if (targetIndex === -1)`
IsMissing(targetIndex) == targetIndex = -1

\* faulty variant: the current page is counted as a step
BackDelta_Length(length, targetIndex) == length - targetIndex

\* `const delta = pages.length - 1 - targetIndex`
BackDelta(length, targetIndex) == length - 1 - targetIndex

\* navigateBack(options) up to the host call; `callbacks` tells whether the
\* caller's success and fail are there to be invoked
BackStarted(entry, delta) ==
    [NoDirect EXCEPT !.pc = "waiting", !.entry = entry, !.promise = "pending",
                     !.hostCalls = <<BackCall(delta)>>, !.host = "pending"]

\* the callbacks the caller of an entry point gets on success / on failure
DirectOnSuccess(entry) ==
    CASE entry = "navigate"     -> <<CbSuccess, CbComplete>>
      [] entry \in {"navigateBack", "openExternalUrl"} -> <<CbSuccess>>
      [] OTHER                  -> <<>>

DirectOnFail(entry, e) ==
    CASE entry = "navigate"     -> <<CbFail(e), CbComplete>>
      [] entry \in {"navigateBack", "openExternalUrl"} -> <<CbFail(e)>>
      [] OTHER                  -> <<>>

\* platform.ts: the pairs of IS_H5 and IS_MP a build can have
Platforms ==
    {[IS_H5 |-> TRUE, IS_MP |-> FALSE], [IS_H5 |-> FALSE, IS_MP |-> TRUE],
     [IS_H5 |-> FALSE, IS_MP |-> FALSE]}

ExternalUrl == <<"h", "t", "t", "p", "s", ":", "/", "/", "a", ".", "b", "?", "c", "=", "1">>
WebviewPath == <<"/", "w", "v">>

\* the ExternalLinkOptions of a call: mode "undefined" is an omitted mode, an
\* empty webviewPath an omitted (or empty) one
ExternalOptions ==
    {[platform |-> pf, mode |-> md, webviewPath |-> wp] :
        pf \in Platforms, md \in {"undefined", "webview", "redirect", "popup"},
        wp \in {<<>>, WebviewPath}}

\* `mode = 'webview'` in the destructuring
ModeOf(o) == IF o.mode = "undefined" THEN "webview" ELSE o.mode

\* faulty variant: the path is not asked for
MissingPath_Never(webviewPath) == FALSE

\* `if (!webviewPath)`
MissingPath(webviewPath) == webviewPath = <<>>

\* the errors openExternalUrl creates itself
MissingPathError(mode) ==
    IF mode = "webview" THEN "MissingWebviewPath(webview)" ELSE "MissingWebviewPath(redirect)"

\* openExternalUrl ends at once with a failure: fail?.(error); reject(error)
ExternalFailed(started, error) ==
    [started EXCEPT !.pc = "done", !.cbs = <<CbFail(error)>>,
                    !.promise = "rejected", !.reason = error]

\* lines 198-277 up to the return of the Promise executor
openExternalUrl(o) ==
    LET started == [NoDirect EXCEPT !.entry = "openExternalUrl", !.ext = o]
        mode    == ModeOf(o)
        target  == o.webviewPath \o <<"?", "u", "r", "l", "=">> \o encodeURIComponent(ExternalUrl)
    IN  IF o.platform.IS_H5
        THEN [started EXCEPT !.pc = "done",
                             !.hostCalls = <<[prim |-> IF mode = "redirect" THEN "location.href"
                                                       ELSE "window.open",
                                              hasUrl |-> TRUE, url |-> ExternalUrl, delta |-> 0]>>,
                             !.cbs = <<CbSuccess>>,
                             !.promise = "fulfilled"]
        ELSE IF o.platform.IS_MP
        THEN IF mode \in {"webview", "redirect"}
             THEN IF MissingPath(o.webviewPath)
                  THEN ExternalFailed(started, MissingPathError(mode))
                  ELSE [started EXCEPT !.pc = "waiting", !.promise = "pending",
                                       !.hostCalls = <<[prim |-> "navigateTo", hasUrl |-> TRUE,
                                                        url |-> target, delta |-> 0]>>,
                                       !.host = "pending"]
             ELSE ExternalFailed(started, "UnknownMode")
        ELSE ExternalFailed(started, "UnsupportedPlatform")

----------------------------------------------------------------------------
(* storage.ts: the synchronous API over the memory cache, and the *Async *)
(* writers                                                               *)

StoreKeys   == {"k1", "k2"}

\* the values written: '' (what the host also returns for a key it does not
\* hold) and the objects { p: 'a' } and { p: 'b' }, named by what they hold
\* at p
StoreValues == {"", "a", "b"}

NoEntry == [has |-> FALSE, value |-> ""]
Null    == [isNull |-> TRUE, value |-> ""]
Value(v) == [isNull |-> FALSE, value |-> v]

\* get(key): what it returns and what it leaves in cache and stats; hostOk
\* tells whether uni.getStorageSync returns (or throws)
get(c, st, s, key, hostOk) ==
    IF c[key].has
    THEN [result |-> Value(c[key].value), cache |-> c,
          stats |-> [s EXCEPT !.hits = @ + 1]]
    ELSE LET s1 == [s EXCEPT !.misses = @ + 1]
         IN  IF hostOk /\ st[key] # ""
             THEN [result |-> Value(st[key]),
                   cache |-> [c EXCEPT ![key] = [has |-> TRUE, value |-> st[key]]],
                   stats |-> s1]
             ELSE [result |-> Null, cache |-> c, stats |-> s1]

\* faulty variant: the cache is written before the host is, and keeps the
\* value when the host write throws
set_CacheFirst(c, st, key, value, hostOk) ==
    [ok |-> hostOk,
     store |-> IF hostOk THEN [st EXCEPT ![key] = value] ELSE st,
     cache |-> [c EXCEPT ![key] = [has |-> TRUE, value |-> value]]]

\* set(key, value)
set(c, st, key, value, hostOk) ==
    IF hostOk
    THEN [ok |-> TRUE, store |-> [st EXCEPT ![key] = value],
          cache |-> [c EXCEPT ![key] = [has |-> TRUE, value |-> value]]]
    ELSE [ok |-> FALSE, store |-> st, cache |-> c]

\* remove(key)
remove(c, st, key, hostOk) ==
    IF hostOk
    THEN [ok |-> TRUE, store |-> [st EXCEPT ![key] = ""], cache |-> [c EXCEPT ![key] = NoEntry]]
    ELSE [ok |-> FALSE, store |-> st, cache |-> c]

\* clear()
clear(c, st, s, hostOk) ==
    IF hostOk
    THEN [ok |-> TRUE, store |-> [k \in StoreKeys |-> ""], cache |-> [k \in StoreKeys |-> NoEntry],
          stats |-> [hits |-> 0, misses |-> 0]]
    ELSE [ok |-> FALSE, store |-> st, cache |-> c, stats |-> s]

\* invalidate(key?): keys is the one key given, or all of them
invalidate(c, keys) == [k \in StoreKeys |-> IF k \in keys THEN NoEntry ELSE c[k]]

\* preload(keys): the cache it leaves; the host read throws for the keys in bad
preload(c, st, keys, bad) ==
    [k \in StoreKeys |->
        IF k \in keys /\ ~c[k].has /\ k \notin bad /\ st[k] # ""
        THEN [has |-> TRUE, value |-> st[k]]
        ELSE c[k]]

\* setPath(key, 'p', value): `let data = get(key) || {}`, then
\* `current['p'] = value`, then set(key, data).  An object that get returned
\* is the object the cache holds (get caches what it reads and hands out the
\* same reference), so the assignment changes the cached value; when get
\* returned nothing or '' a new object is written to.  getOk and setOk tell
\* whether the host read and the host write return
setPath(c, st, s, key, value, getOk, setOk) ==
    LET g     == get(c, st, s, key, getOk)
        fresh == g.result.isNull \/ g.result.value = ""
        c1    == IF fresh THEN g.cache ELSE [g.cache EXCEPT ![key].value = value]
        w     == set(c1, st, key, value, setOk)
    IN  [ok |-> w.ok, store |-> w.store, cache |-> w.cache, stats |-> g.stats]

Op(name, key, ok) == [op |-> name, key |-> key, ok |-> ok]

Unpinned == [valid |-> FALSE, value |-> ""]

StorageIdle ==
    /\ store = [k \in StoreKeys |-> ""]
    /\ cache = [k \in StoreKeys |-> NoEntry]
    /\ stats = [hits |-> 0, misses |-> 0]
    /\ pinned = [k \in StoreKeys |-> Unpinned]
    /\ lastOp = Op("none", "", TRUE)

----------------------------------------------------------------------------
(* Initial states *)

\* nothing computed, nothing stored
AuxIdle ==
    /\ urlJob = NoJob
    /\ runs = NoRuns
    /\ StorageIdle

\* the router as the module leaves it when loaded
RouterIdle ==
    /\ guards = <<>>
    /\ enableLog = FALSE
    /\ calls = [c \in Callers |-> NoCall]
    /\ nDirect = 0
    /\ snap = NoSnap
    /\ direct = NoDirect
    /\ history = <<>>
    /\ recorded = <<>>
    /\ pages = <<>>

\* the storage module as loaded, over a host storage left by earlier runs
InitStorage ==
    /\ RouterIdle
    /\ urlJob = NoJob
    /\ runs = NoRuns
    /\ store \in [StoreKeys -> StoreValues]
    /\ cache = [k \in StoreKeys |-> NoEntry]
    /\ stats = [hits |-> 0, misses |-> 0]
    /\ pinned = [k \in StoreKeys |-> Unpinned]
    /\ lastOp = Op("none", "", TRUE)

\* a buildUrl call with any of the inputs
InitUrl ==
    /\ RouterIdle
    /\ runs = NoRuns
    /\ StorageIdle
    /\ urlJob \in {[NoJob EXCEPT !.pc = "input", !.path = p, !.entries = ix] :
                       p \in UrlPaths, ix \in ParamLists}

InitCommon ==
    /\ guards = <<>>
    /\ enableLog = FALSE
    /\ calls = [c \in Callers |-> NoCall]
    /\ nDirect = 0
    /\ snap = NoSnap
    /\ direct = NoDirect
    /\ AuxIdle

Init ==
    /\ InitCommon
    /\ history = <<>>
    /\ recorded = <<>>
    /\ pages = <<>>

\* the same process with any page stack the host may have built
InitDirect ==
    /\ InitCommon
    /\ history = <<>>
    /\ recorded = <<>>
    /\ pages \in PageStacks

\* the buffer after n earlier approved navigations to /i with id = 1 .. n
\* (n distinct URLs)
Prefill(n) ==
    [i \in 1..n |-> buildUrl(PathItem, <<[key |-> KeyId, value |-> Num(i)]>>)]

\* a process that has been running: the buffer is one short of full
InitWarm ==
    /\ InitCommon
    /\ history = Prefill(maxHistorySize - 1)
    /\ recorded = Prefill(maxHistorySize - 1)
    /\ pages = <<>>

----------------------------------------------------------------------------
(* Actions *)

\* addGuard(guard)
AddGuard(g) ==
    /\ Len(guards) < MaxGuards
    /\ guards' = addGuard(Config, g).guards
    /\ UNCHANGED <<enableLog, history, calls, recorded, nDirect, snap, pages, direct, aux>>

\* removeGuard(guard)
RemoveGuard(g) ==
    /\ LET cfg == removeGuard(Config, g)
       IN  /\ guards' = cfg.guards
           /\ enableLog' = cfg.enableLog
           /\ history' = cfg.history
    /\ UNCHANGED <<calls, recorded, nDirect, snap, pages, direct, aux>>

\* clearGuards(): config.guards = [] installs a new array; a loop that is
\* running keeps the replaced one
ClearGuards ==
    /\ guards' = <<>>
    /\ calls' = [c \in CallIds |->
                    IF calls[c].pc = "guard" /\ calls[c].live
                    THEN [calls[c] EXCEPT !.live = FALSE, !.own = guards]
                    ELSE calls[c]]
    /\ UNCHANGED <<enableLog, history, recorded, nDirect, snap, pages, direct, aux>>

\* setLogEnabled(enabled)
SetLogEnabled(b) ==
    /\ enableLog' = b
    /\ UNCHANGED <<guards, history, calls, recorded, nDirect, snap, pages, direct, aux>>

\* clearHistory(): config.history = [] installs a new array; an array handed
\* out earlier is not the buffer's any more
ClearHistory ==
    /\ LET cfg == clearHistory(Config)
       IN  /\ guards' = cfg.guards
           /\ enableLog' = cfg.enableLog
           /\ history' = cfg.history
    /\ recorded' = <<>>
    /\ snap' = [snap EXCEPT !.alias = FALSE]
    /\ UNCHANGED <<calls, nDirect, pages, direct, aux>>

\* getHistory(): the caller keeps what it returns
GetHistory ==
    /\ LET r == getHistory(history)
       IN  snap' = [held |-> TRUE, alias |-> r.alias, value |-> r.value,
                    taken |-> r.value, mutated |-> FALSE]
    /\ UNCHANGED <<guards, enableLog, history, calls, recorded, nDirect, pages, direct, aux>>

\* the caller pushes an entry of its own onto the array it was given
MutateSnapshot ==
    /\ snap.held
    /\ ~snap.mutated
    /\ snap' = [snap EXCEPT !.value = Append(@, CallerEntry), !.mutated = TRUE]
    /\ history' = IF snap.alias THEN Append(history, CallerEntry) ELSE history
    /\ UNCHANGED <<guards, enableLog, calls, recorded, nDirect, pages, direct, aux>>

\* recordHistory(url) called by other code (another navigation, or directly:
\* it is exported)
RecordHistory(u) ==
    /\ nDirect < MaxRecords
    /\ nDirect' = nDirect + 1
    /\ history' = recordHistory(history, u)
    /\ recorded' = Append(recorded, u)
    /\ snap' = Seen(snap, history')
    /\ UNCHANGED <<guards, enableLog, calls, pages, direct, aux>>

\* navigate(options) up to its first suspension: buildUrl, then executeGuards
\* runs synchronously up to its first await (or returns at once)
Navigate(c, r, syncThrow) ==
    /\ calls[c].pc = "idle"
    /\ (syncThrow => guards # <<>>)
    /\ LET started == [NoCall EXCEPT !.req = r,
                                     !.fullUrl = FullUrlOf(r),
                                     !.live = TRUE,
                                     !.promise = "pending"]
       IN  calls' = [calls EXCEPT ![c] = Loop(started, guards, 1, syncThrow)]
    /\ UNCHANGED <<guards, enableLog, history, recorded, nDirect, snap, pages, direct, aux>>

\* the guard called at position i settles; executeGuards resumes
GuardSettle(c, i, outcome, syncThrow) ==
    /\ i \in calls[c].pending
    /\ LET call == calls[c]
           a    == ArrayOf(call)
           c1   == [call EXCEPT !.pending = @ \ {i},
                                !.results = Append(@, outcome)]
           r    == OnGuardResult(outcome)
       IN  /\ (syncThrow => call.pc = "guard" /\ r = "next" /\ call.idx + 1 <= Len(a))
           /\ calls' = [calls EXCEPT ![c] =
                  IF call.pc # "guard" THEN c1
                  ELSE IF r = "next" THEN Loop(c1, a, call.idx + 1, syncThrow)
                  ELSE Returned(c1, r)]
    /\ UNCHANGED <<guards, enableLog, history, recorded, nDirect, snap, pages, direct, aux>>

\* navigate resumes with the verdict of executeGuards and runs to its end;
\* the finished evaluation's iterator and bookkeeping are gone by then
NavigateResume(c) ==
    /\ calls[c].pc = "evaluated"
    /\ LET call == [calls[c] EXCEPT !.invoked = <<>>, !.results = <<>>]
       IN  IF call.verdict = "threw"
           THEN /\ calls' = [calls EXCEPT ![c] = [call EXCEPT !.promise = "rejected",
                                                               !.reason = "GuardError",
                                                               !.pc = "done"]]
                /\ UNCHANGED <<history, recorded>>
           ELSE IF ~CanNavigate(call.verdict)
           THEN /\ calls' = [calls EXCEPT ![c] = Vetoed(call)]
                /\ UNCHANGED <<history, recorded>>
           ELSE /\ history' = recordHistory(history, RecordedUrl(c))
                /\ recorded' = Append(recorded, RecordedUrl(c))
                /\ calls' = [calls EXCEPT ![c] = Dispatched(call)]
    /\ snap' = Seen(snap, history')
    /\ UNCHANGED <<guards, enableLog, nDirect, pages, direct, aux>>

\* the host reports success: options.success, then options.complete
HostSuccess(c) ==
    /\ calls[c].host = "pending"
    /\ calls' = [calls EXCEPT ![c].host = "success",
                              ![c].cbs = @ \o <<CbSuccess, CbComplete>>,
                              ![c].pc = "done"]
    /\ UNCHANGED <<guards, enableLog, history, recorded, nDirect, snap, pages, direct, aux>>

\* the host reports failure: options.fail(error), then options.complete
HostFail(c, e) ==
    /\ calls[c].host = "pending"
    /\ calls' = [calls EXCEPT ![c] = HostFailed(calls[c], e)]
    /\ UNCHANGED <<guards, enableLog, history, recorded, nDirect, snap, pages, direct, aux>>

\* navigateBack(options): the host is called at once, no guard is consulted
NavigateBack(o) ==
    /\ direct.pc = "idle"
    /\ direct' = [BackStarted("navigateBack", DeltaOf(o)) EXCEPT !.opt = o]
    /\ UNCHANGED <<guards, enableLog, history, calls, recorded, nDirect, snap, pages, aux>>

\* navigateBackTo(url)
NavigateBackTo(url) ==
    /\ direct.pc = "idle"
    /\ LET targetIndex == findIndex(pages, url)
           delta       == BackDelta(Len(pages), targetIndex)
           started     == [NoDirect EXCEPT !.entry = "navigateBackTo", !.target = url]
       IN  direct' =
             IF IsMissing(targetIndex)
             THEN [started EXCEPT !.pc = "done", !.promise = "rejected",
                                  !.reason = "TargetPageNotFound"]
             ELSE IF delta <= 0
             THEN [started EXCEPT !.pc = "done", !.promise = "fulfilled"]
             ELSE [BackStarted("navigateBackTo", delta) EXCEPT !.target = url]
    /\ UNCHANGED <<guards, enableLog, history, calls, recorded, nDirect, snap, pages, aux>>

\* navigate(options) of the variant without guards: the promise is settled by
\* the host's callbacks, or rejected at once for an unknown type
NavigateUnguarded(r) ==
    /\ direct.pc = "idle"
    /\ LET started == [NoDirect EXCEPT !.entry = "navigate", !.req = r]
       IN  direct' =
             IF TypeOf(r) \in KnownTypes
             THEN [started EXCEPT !.pc = "waiting", !.promise = "pending",
                                  !.hostCalls = <<HostCallFor(TypeOf(r), Requests[r].url,
                                                              FullUrlOf(r))>>,
                                  !.host = "pending"]
             ELSE [started EXCEPT !.pc = "done", !.promise = "rejected",
                                  !.reason = "InvalidTransitionKind"]
    /\ UNCHANGED <<guards, enableLog, history, calls, recorded, nDirect, snap, pages, aux>>

\* openExternalUrl(options) on a build for some platform
OpenExternalUrl(o) ==
    /\ direct.pc = "idle"
    /\ direct' = openExternalUrl(o)
    /\ UNCHANGED <<guards, enableLog, history, calls, recorded, nDirect, snap, pages, aux>>

\* the host reports success to a direct call
DirectHostSuccess ==
    /\ direct.host = "pending"
    /\ direct' = [direct EXCEPT !.host = "success",
                                !.cbs = @ \o DirectOnSuccess(direct.entry),
                                !.promise = "fulfilled",
                                !.pc = "done"]
    /\ UNCHANGED <<guards, enableLog, history, calls, recorded, nDirect, snap, pages, aux>>

\* the host reports failure to a direct call
DirectHostFail(e) ==
    /\ direct.host = "pending"
    /\ direct' = [direct EXCEPT !.host = "fail",
                                !.hostErr = e,
                                !.cbs = @ \o DirectOnFail(direct.entry, e),
                                !.promise = "rejected",
                                !.reason = e,
                                !.pc = "done"]
    /\ UNCHANGED <<guards, enableLog, history, calls, recorded, nDirect, snap, pages, aux>>

\* buildUrl(url, params)
BuildUrl ==
    /\ urlJob.pc = "input"
    /\ urlJob' = [urlJob EXCEPT !.pc = "built",
                                !.built = buildUrl(urlJob.path, ParamsOf(urlJob.entries))]
    /\ UNCHANGED <<routerVars, runs, store, cache, stats, pinned, lastOp>>

\* parseUrlParams(url) applied to the URL just built
ParseUrlParams ==
    /\ urlJob.pc = "built"
    /\ urlJob' = [urlJob EXCEPT !.pc = "parsed", !.parsed = parseUrlParams(urlJob.built)]
    /\ UNCHANGED <<routerVars, runs, store, cache, stats, pinned, lastOp>>

\* storage.get(key)
StorageGet(key, hostOk) ==
    /\ stats.hits + stats.misses < MaxGets
    /\ LET r == get(cache, store, stats, key, hostOk)
       IN  /\ cache' = r.cache
           /\ stats' = r.stats
           /\ lastOp' = Op("get", key, ~r.result.isNull)
    /\ UNCHANGED <<routerVars, urlJob, runs, store, pinned>>

\* storage.set(key, value)
StorageSet(key, value, hostOk) ==
    /\ LET r == set(cache, store, key, value, hostOk)
       IN  /\ cache' = r.cache
           /\ store' = r.store
           /\ lastOp' = Op("set", key, r.ok)
           /\ pinned' = IF r.ok THEN [pinned EXCEPT ![key] = [valid |-> TRUE, value |-> value]]
                        ELSE pinned
    /\ UNCHANGED <<routerVars, urlJob, runs, stats>>

\* storage.remove(key)
StorageRemove(key, hostOk) ==
    /\ LET r == remove(cache, store, key, hostOk)
       IN  /\ cache' = r.cache
           /\ store' = r.store
           /\ lastOp' = Op("remove", key, r.ok)
           /\ pinned' = IF r.ok THEN [pinned EXCEPT ![key] = Unpinned] ELSE pinned
    /\ UNCHANGED <<routerVars, urlJob, runs, stats>>

\* storage.clear()
StorageClear(hostOk) ==
    /\ LET r == clear(cache, store, stats, hostOk)
       IN  /\ cache' = r.cache
           /\ store' = r.store
           /\ stats' = r.stats
           /\ lastOp' = Op("clear", "", r.ok)
           /\ pinned' = IF r.ok THEN [k \in StoreKeys |-> Unpinned] ELSE pinned
    /\ UNCHANGED <<routerVars, urlJob, runs>>

\* storage.invalidate(key) for keys = {key}, storage.invalidate() for all keys
StorageInvalidate(keys) ==
    /\ cache' = invalidate(cache, keys)
    /\ lastOp' = Op("invalidate", "", TRUE)
    /\ pinned' = [k \in StoreKeys |-> IF k \in keys THEN Unpinned ELSE pinned[k]]
    /\ UNCHANGED <<routerVars, urlJob, runs, store, stats>>

\* storage.preload(keys)
StoragePreload(keys, bad) ==
    /\ cache' = preload(cache, store, keys, bad)
    /\ lastOp' = Op("preload", "", TRUE)
    /\ UNCHANGED <<routerVars, urlJob, runs, store, stats, pinned>>

\* storage.setAsync(key, value), once the host has answered: only the host's
\* storage is written
StorageSetAsync(key, value, hostOk) ==
    /\ store' = IF hostOk THEN [store EXCEPT ![key] = value] ELSE store
    /\ lastOp' = Op("setAsync", key, hostOk)
    /\ UNCHANGED <<routerVars, urlJob, runs, cache, stats, pinned>>

\* storage.removeAsync(key), once the host has answered
StorageRemoveAsync(key, hostOk) ==
    /\ store' = IF hostOk THEN [store EXCEPT ![key] = ""] ELSE store
    /\ lastOp' = Op("removeAsync", key, hostOk)
    /\ UNCHANGED <<routerVars, urlJob, runs, cache, stats, pinned>>

\* storage.clearAsync(), once the host has answered
StorageClearAsync(hostOk) ==
    /\ store' = IF hostOk THEN [k \in StoreKeys |-> ""] ELSE store
    /\ lastOp' = Op("clearAsync", "", hostOk)
    /\ UNCHANGED <<routerVars, urlJob, runs, cache, stats, pinned>>

\* storage.setPath(key, 'p', value)
StorageSetPath(key, value, getOk, setOk) ==
    /\ stats.hits + stats.misses < MaxGets
    /\ LET r == setPath(cache, store, stats, key, value, getOk, setOk)
       IN  /\ cache' = r.cache
           /\ store' = r.store
           /\ stats' = r.stats
           /\ lastOp' = Op("setPath", key, r.ok)
           /\ pinned' = IF r.ok THEN [pinned EXCEPT ![key] = [valid |-> TRUE, value |-> value]]
                        ELSE pinned
    /\ UNCHANGED <<routerVars, urlJob, runs>>

Next ==
    \/ \E g \in GuardIds : AddGuard(g)
    \/ \E g \in GuardIds : RemoveGuard(g)
    \/ ClearGuards
    \/ \E b \in BOOLEAN : SetLogEnabled(b)
    \/ ClearHistory
    \/ \E u \in DirectUrls : RecordHistory(u)
    \/ \E c \in CallIds, r \in ReqIds, t \in BOOLEAN : Navigate(c, r, t)
    \/ \E c \in CallIds, i \in 1..MaxGuards, o \in GuardOutcomes, t \in BOOLEAN :
           GuardSettle(c, i, o, t)
    \/ \E c \in CallIds : NavigateResume(c)
    \/ \E c \in CallIds : HostSuccess(c)
    \/ \E c \in CallIds, e \in HostErrors : HostFail(c, e)

Spec == Init /\ [][Next]_vars

\* the same program observed once the history buffer has filled up
SpecWarm == InitWarm /\ [][Next]_vars

\* Every guard invocation eventually settles, a continuation that is ready
\* to run is eventually run by the event loop, and the host eventually
\* reports the outcome of a primitive it was asked for.
Fairness ==
    \A c \in Callers :
        /\ WF_vars(\E i \in 1..MaxGuards, o \in GuardOutcomes : GuardSettle(c, i, o, FALSE))
        /\ WF_vars(NavigateResume(c))
        /\ WF_vars(HostSuccess(c) \/ \E e \in HostErrors : HostFail(c, e))

\* one navigate() call and what can lengthen or shorten its guard loop
NextLive ==
    \/ \E g \in GuardIds : AddGuard(g)
    \/ \E g \in GuardIds : RemoveGuard(g)
    \/ ClearGuards
    \/ \E c \in CallIds, r \in ReqIds, t \in BOOLEAN : Navigate(c, r, t)
    \/ \E c \in CallIds, i \in 1..MaxGuards, o \in GuardOutcomes, t \in BOOLEAN :
           GuardSettle(c, i, o, t)
    \/ \E c \in CallIds : NavigateResume(c)
    \/ \E c \in CallIds : HostSuccess(c)
    \/ \E c \in CallIds, e \in HostErrors : HostFail(c, e)

SpecLive == Init /\ [][NextLive]_vars /\ Fairness

\* two navigate() calls in flight at once, each followed step by step
PairCallers == {"c1", "c2"}

InitPair ==
    /\ guards = <<>>
    /\ enableLog = FALSE
    /\ calls = [c \in PairCallers |-> NoCall]
    /\ nDirect = 0
    /\ snap = NoSnap
    /\ direct = NoDirect
    /\ history = <<>>
    /\ recorded = <<>>
    /\ pages = <<>>
    /\ AuxIdle

NextPair ==
    \/ \E g \in GuardIds : AddGuard(g)
    \/ \E c \in CallIds, r \in ReqIds, t \in BOOLEAN : Navigate(c, r, t)
    \/ \E c \in CallIds, i \in 1..MaxGuards, o \in GuardOutcomes, t \in BOOLEAN :
           GuardSettle(c, i, o, t)
    \/ \E c \in CallIds : NavigateResume(c)
    \/ \E c \in CallIds : HostSuccess(c)
    \/ \E c \in CallIds, e \in HostErrors : HostFail(c, e)

SpecPair == InitPair /\ [][NextPair]_vars

\* buildUrl on each input, and parseUrlParams on what it returned
NextUrl ==
    \/ BuildUrl
    \/ ParseUrlParams

SpecUrl == InitUrl /\ [][NextUrl]_vars

\* One operation applied to both runs; it can be applied when the program
\* allows it in each of them.
TwinAddGuard(g) ==
    /\ \A x \in Twins : Len(runs[x].guards) < MaxGuards
    /\ runs' = [x \in Twins |-> run_addGuard(Quiet(runs[x]), g)]
    /\ UNCHANGED <<routerVars, urlJob, store, cache, stats, pinned, lastOp>>

TwinRemoveGuard(g) ==
    /\ runs' = [x \in Twins |-> run_removeGuard(Quiet(runs[x]), g)]
    /\ UNCHANGED <<routerVars, urlJob, store, cache, stats, pinned, lastOp>>

TwinClearGuards ==
    /\ runs' = [x \in Twins |-> run_clearGuards(Quiet(runs[x]))]
    /\ UNCHANGED <<routerVars, urlJob, store, cache, stats, pinned, lastOp>>

TwinClearHistory ==
    /\ runs' = [x \in Twins |-> run_clearHistory(Quiet(runs[x]))]
    /\ UNCHANGED <<routerVars, urlJob, store, cache, stats, pinned, lastOp>>

\* setLogEnabled, with an argument of its own in each run
TwinSetLogEnabled(enabled) ==
    /\ runs' = [x \in Twins |-> run_setLogEnabled(Quiet(runs[x]), enabled[x])]
    /\ UNCHANGED <<routerVars, urlJob, store, cache, stats, pinned, lastOp>>

TwinNavigate(r, syncThrow) ==
    /\ \A x \in Twins : runs[x].call.pc = "idle" /\ (syncThrow => runs[x].guards # <<>>)
    /\ runs' = [x \in Twins |-> run_navigate(Quiet(runs[x]), r, syncThrow)]
    /\ UNCHANGED <<routerVars, urlJob, store, cache, stats, pinned, lastOp>>

\* the guard called at position i settles the same way in both runs
TwinGuardSettle(i, outcome, syncThrow) ==
    /\ \A x \in Twins :
          LET call == runs[x].call
              a    == IF call.live THEN runs[x].guards ELSE call.own
          IN  /\ i \in call.pending
              /\ syncThrow => /\ call.pc = "guard"
                              /\ OnGuardResult(outcome) = "next"
                              /\ call.idx + 1 <= Len(a)
    /\ runs' = [x \in Twins |-> run_guardSettle(Quiet(runs[x]), i, outcome, syncThrow)]
    /\ UNCHANGED <<routerVars, urlJob, store, cache, stats, pinned, lastOp>>

TwinResume ==
    /\ \A x \in Twins : runs[x].call.pc = "evaluated"
    /\ runs' = [x \in Twins |-> run_resume(Quiet(runs[x]))]
    /\ UNCHANGED <<routerVars, urlJob, store, cache, stats, pinned, lastOp>>

\* the host reports the same outcome in both runs
TwinHostSuccess ==
    /\ \A x \in Twins : runs[x].call.host = "pending"
    /\ runs' = [x \in Twins |-> run_hostSuccess(Quiet(runs[x]))]
    /\ UNCHANGED <<routerVars, urlJob, store, cache, stats, pinned, lastOp>>

TwinHostFail(e) ==
    /\ \A x \in Twins : runs[x].call.host = "pending"
    /\ runs' = [x \in Twins |-> run_hostFail(Quiet(runs[x]), e)]
    /\ UNCHANGED <<routerVars, urlJob, store, cache, stats, pinned, lastOp>>

InitTwin == RouterIdle /\ AuxIdle

\* two runs of the router given the same operations and the same guard and
\* host outcomes, each with log flag settings of its own
NextTwin ==
    \/ \E g \in GuardIds : TwinAddGuard(g)
    \/ \E g \in GuardIds : TwinRemoveGuard(g)
    \/ TwinClearGuards
    \/ TwinClearHistory
    \/ \E enabled \in [Twins -> BOOLEAN] : TwinSetLogEnabled(enabled)
    \/ \E r \in ReqIds, t \in BOOLEAN : TwinNavigate(r, t)
    \/ \E i \in 1..MaxGuards, o \in GuardOutcomes, t \in BOOLEAN : TwinGuardSettle(i, o, t)
    \/ TwinResume
    \/ TwinHostSuccess
    \/ \E e \in HostErrors : TwinHostFail(e)

SpecTwin == InitTwin /\ [][NextTwin]_vars

\* the storage module used by one caller after another (it is synchronous
\* but for the *Async writers, which touch the host's storage only)
NextStorage ==
    \/ \E k \in StoreKeys, ok \in BOOLEAN : StorageGet(k, ok)
    \/ \E k \in StoreKeys, v \in StoreValues, ok \in BOOLEAN : StorageSet(k, v, ok)
    \/ \E k \in StoreKeys, ok \in BOOLEAN : StorageRemove(k, ok)
    \/ \E ok \in BOOLEAN : StorageClear(ok)
    \/ \E ks \in (SUBSET StoreKeys) \ {{}} : StorageInvalidate(ks)
    \/ \E ks \in (SUBSET StoreKeys) \ {{}}, bad \in SUBSET StoreKeys : StoragePreload(ks, bad)
    \/ \E k \in StoreKeys, v \in StoreValues, ok \in BOOLEAN : StorageSetAsync(k, v, ok)
    \/ \E k \in StoreKeys, ok \in BOOLEAN : StorageRemoveAsync(k, ok)
    \/ \E ok \in BOOLEAN : StorageClearAsync(ok)

SpecStorage == InitStorage /\ [][NextStorage]_vars

\* the same with setPath among the operations
NextStoragePath ==
    \/ NextStorage
    \/ \E k \in StoreKeys, v \in StoreValues \ {""}, getOk \in BOOLEAN, setOk \in BOOLEAN :
           StorageSetPath(k, v, getOk, setOk)

SpecStoragePath == InitStorage /\ [][NextStoragePath]_vars

\* the registry after MaxRegistered calls of addGuard, taken apart again
Registries == [1..MaxRegistered -> GuardIds]

InitRegistry ==
    /\ guards \in Registries
    /\ enableLog = FALSE
    /\ calls = [c \in Callers |-> NoCall]
    /\ nDirect = 0
    /\ snap = NoSnap
    /\ direct = NoDirect
    /\ history = <<>>
    /\ recorded = <<>>
    /\ pages = <<>>
    /\ AuxIdle

NextRegistry ==
    \/ \E g \in GuardIds : RemoveGuard(g)
    \/ ClearGuards
    \/ \E b \in BOOLEAN : SetLogEnabled(b)

SpecRegistry == InitRegistry /\ [][NextRegistry]_vars

\* the two ways back: one navigate() call under guards, and one call of
\* navigateBack
NextBack ==
    \/ \E g \in GuardIds : AddGuard(g)
    \/ \E c \in CallIds, r \in ReqIds, t \in BOOLEAN : Navigate(c, r, t)
    \/ \E c \in CallIds, i \in 1..MaxGuards, o \in GuardOutcomes, t \in BOOLEAN :
           GuardSettle(c, i, o, t)
    \/ \E c \in CallIds : NavigateResume(c)
    \/ \E c \in CallIds : HostSuccess(c)
    \/ \E c \in CallIds, e \in HostErrors : HostFail(c, e)
    \/ \E o \in BackOptions : NavigateBack(o)
    \/ DirectHostSuccess
    \/ \E e \in HostErrors : DirectHostFail(e)

SpecBack == Init /\ [][NextBack]_vars

\* the history API and its callers: what getHistory hands out and what
\* becomes of it, with the registry and the log flag changing alongside
NextHistory ==
    \/ \E g \in GuardIds : AddGuard(g)
    \/ \E g \in GuardIds : RemoveGuard(g)
    \/ \E b \in BOOLEAN : SetLogEnabled(b)
    \/ ClearHistory
    \/ \E u \in DirectUrls : RecordHistory(u)
    \/ GetHistory
    \/ MutateSnapshot

SpecHistory == Init /\ [][NextHistory]_vars

\* the entry points that reach the host without the guarded navigate, on
\* any page stack and with any guards registered
NextDirect ==
    \/ \E g \in GuardIds : AddGuard(g)
    \/ \E g \in GuardIds : RemoveGuard(g)
    \/ ClearGuards
    \/ \E o \in BackOptions : NavigateBack(o)
    \/ \E url \in BackTargets : NavigateBackTo(url)
    \/ \E r \in ReqIds : NavigateUnguarded(r)
    \/ \E o \in ExternalOptions : OpenExternalUrl(o)
    \/ DirectHostSuccess
    \/ \E e \in HostErrors : DirectHostFail(e)

SpecDirect == InitDirect /\ [][NextDirect]_vars

----------------------------------------------------------------------------
(* Properties *)

Range(s) == {s[i] : i \in 1..Len(s)}

Min(a, b) == IF a < b THEN a ELSE b

\* what one recordHistory call must do to a first-in-first-out buffer
FifoAppend(h, u) ==
    IF Len(h) < maxHistorySize THEN Append(h, u) ELSE Append(Tail(h), u)

\* the step in which navigate() of call c resumes with the guards' verdict
Resumes(c) == calls[c].pc = "evaluated" /\ calls'[c].pc # "evaluated"

\* C1: a navigate call whose guard evaluation returned false appends nothing
\* to the history and invokes no host primitive; its fail callback is invoked
\* once with the guard-rejection value, then its complete callback once.
C1_VetoNoHistoryNoHost ==
    /\ [](\A c \in CallIds :
            calls[c].verdict = "false" =>
                /\ calls[c].hostCalls = <<>>
                /\ calls[c].host = "none"
                /\ calls[c].pc = "done" =>
                       calls[c].cbs = <<CbFail("GuardRejected"), CbComplete>>
                /\ calls[c].pc # "done" => calls[c].cbs = <<>>)
    /\ [][\A c \in CallIds :
            (calls'[c].verdict = "false" /\ calls'[c] # calls[c]) =>
                history' = history]_vars

C1_Witness ==
    \E c \in CallIds :
        /\ calls[c].pc = "done"
        /\ calls[c].verdict = "false"
        /\ calls[c].cbs = <<CbFail("GuardRejected"), CbComplete>>
        /\ history = <<>>

\* C2: in one evaluation, the guard that returned false is the last guard
\* the evaluation invokes, whatever its position in the registry.
C2_ShortCircuit ==
    \A c \in CallIds :
        \A k \in 1..Len(calls[c].results) :
            calls[c].results[k] = "false" =>
                /\ Len(calls[c].invoked) = k
                /\ calls[c].pending = {}
                /\ calls[c].pc = "evaluated"

\* the first of two registered guards returned false; the second was not called
C2_Witness ==
    \E c \in CallIds :
        /\ calls[c].results = <<"false">>
        /\ Len(guards) = 2
        /\ calls[c].invoked = <<guards[1]>>

\* C3: an evaluation calls the guards at positions 1, 2, 3, ... of the
\* registry, one per step, each only when every guard it called before has
\* settled; at most one of its guards is pending.
C3_SequentialInOrder ==
    /\ [](\A c \in CallIds :
            /\ Cardinality(calls[c].pending) <= 1
            /\ Len(calls[c].invoked) <= Len(calls[c].results) + 1)
    /\ [][\A c \in CallIds :
            (calls'[c].invoked # calls[c].invoked /\ calls'[c].invoked # <<>>) =>
                /\ Len(calls'[c].invoked) = Len(calls[c].invoked) + 1
                /\ Len(calls'[c].results) >= Len(calls[c].invoked)
                /\ LET a == IF calls[c].pc = "idle" THEN guards
                            ELSE ArrayOf(calls[c])
                       k == Len(calls'[c].invoked)
                   IN  k <= Len(a) /\ Last(calls'[c].invoked) = a[k]]_vars

\* the second guard is pending after the first one returned true
C3_Witness ==
    \E c \in CallIds :
        /\ calls[c].pc = "guard"
        /\ calls[c].results = <<"true">>
        /\ calls[c].pending = {2}
        /\ calls[c].invoked = <<"g1", "g2">>

\* C4: when a guard throws or its promise rejects, executeGuards returns
\* false without calling another guard and without throwing, and navigate
\* takes its guard-rejected branch instead of failing with the guard's error.
C4_GuardErrorIsVeto ==
    /\ [](\A c \in CallIds :
            /\ calls[c].verdict # "threw"
            /\ calls[c].reason # "GuardError"
            /\ \A k \in 1..Len(calls[c].results) :
                   calls[c].results[k] \in {"throw", "reject"} =>
                       /\ Len(calls[c].invoked) = k
                       /\ calls[c].pc = "evaluated"
                       /\ calls[c].verdict = "false")
    /\ [][\A c \in CallIds :
            (/\ Resumes(c)
             /\ calls[c].results # <<>>
             /\ Last(calls[c].results) \in {"throw", "reject"}) =>
                /\ calls'[c].pc = "done"
                /\ calls'[c].cbs = <<CbFail("GuardRejected"), CbComplete>>
                /\ calls'[c].hostCalls = <<>>]_vars

\* the second guard threw after the first one passed
C4_Witness ==
    \E c \in CallIds :
        /\ calls[c].pc = "evaluated"
        /\ calls[c].results = <<"true", "throw">>
        /\ calls[c].verdict = "false"

\* C5 (as claimed): executeGuards returns true exactly when every guard it
\* called returned true and every guard registered at that moment has been
\* called by it.
C5_TrueIffAllRegisteredPassed ==
    [][\A c \in CallIds :
        (calls[c].verdict = "none" /\ calls'[c].verdict # "none") =>
            (calls'[c].verdict = "true" <=>
                /\ \A k \in 1..Len(calls'[c].results) : calls'[c].results[k] = "true"
                /\ \A i \in 1..Len(guards) :
                       \E k \in 1..Len(calls'[c].invoked) :
                           /\ calls'[c].invoked[k] = guards[i]
                           /\ k <= Len(calls'[c].results)
                           /\ calls'[c].results[k] = "true")]_vars

\* C6 (as claimed): a vetoed navigate call rejects its promise with the
\* guard-rejection value.
C6_VetoRejectsPromise ==
    \A c \in CallIds :
        (calls[c].pc = "done" /\ calls[c].verdict = "false") =>
            /\ calls[c].promise = "rejected"
            /\ calls[c].reason = "GuardRejected"

\* C7 (as claimed): the promise of an approved call is settled only once the
\* host has reported, fulfilled exactly on host success and rejected exactly
\* on host failure.
C7_PromiseFollowsHost ==
    \A c \in CallIds :
        (calls[c].verdict = "true" /\ calls[c].hostCalls # <<>>) =>
            /\ calls[c].promise \in {"fulfilled", "rejected"} =>
                   calls[c].host \in {"success", "fail"}
            /\ calls[c].promise = "fulfilled" <=> calls[c].host = "success"
            /\ calls[c].promise = "rejected" <=> calls[c].host = "fail"

\* C8: the step in which an approved call resumes appends the URL built from
\* its path and params to the history, once; no other step of a call touches
\* the history, whatever the host reports afterwards.
C8_OneHistoryEntryPerApprovedCall ==
    [][\A c \in CallIds :
        /\ (Resumes(c) /\ calls[c].verdict = "true") =>
               history' = FifoAppend(history,
                              buildUrl(Requests[calls[c].req].url,
                                       Requests[calls[c].req].params))
        /\ (calls'[c] # calls[c] /\ ~(Resumes(c) /\ calls[c].verdict = "true")) =>
               history' = history]_vars

\* the host failed after the call's URL was recorded, as the entry that made
\* the full buffer drop its oldest one
C8_Witness ==
    \E c \in CallIds :
        /\ calls[c].host = "fail"
        /\ calls[c].req = 1
        /\ Len(recorded) = maxHistorySize + 1
        /\ Len(history) = maxHistorySize
        /\ Last(history) = <<"/", "p", "a", "g", "e", "s", "/", "d", "e", "t", "a",
                             "i", "l", "?", "i", "d", "=", "1", "2", "3">>

\* C9: the history buffer never holds more than maxHistorySize entries.
C9_HistoryBounded == Len(history) <= maxHistorySize

\* the buffer is full and more than maxHistorySize URLs have been recorded
C9_Witness ==
    /\ Len(history) = maxHistorySize
    /\ Len(recorded) > maxHistorySize

\* C10: the buffer holds exactly the last min(n, maxHistorySize) of the n URLs
\* recorded since the last clear, in recording order.
C10_HistoryIsFifo ==
    LET n == Len(recorded)
        k == Min(n, maxHistorySize)
    IN  history = SubSeq(recorded, n - k + 1, n)

\* after maxHistorySize + 1 insertions the first is gone, the newest is last
C10_Witness ==
    /\ Len(recorded) = maxHistorySize + 1
    /\ Head(recorded) \notin Range(history)
    /\ Last(history) = Last(recorded)

\* the invocations of callback `name` among cbs, in order
Invocations(cbs, name) == SelectSeq(cbs, LAMBDA x : x.cb = name)

\* C11: an array returned by getHistory holds what the buffer held when it was
\* returned, whatever recordHistory and clearHistory did since, plus only what
\* its holder pushed onto it; the holder's push leaves the buffer the last
\* URLs recorded since the last clear; clearHistory leaves an empty buffer and
\* the same guard list and log flag.
C11_GetHistorySnapshot ==
    /\ (snap.held /\ ~snap.mutated) => snap.value = snap.taken
    /\ (snap.held /\ snap.mutated) =>
          /\ snap.value = Append(snap.taken, CallerEntry)
          /\ CallerEntry \notin Range(history)
          /\ Len(history) = Min(Len(recorded), maxHistorySize)
    /\ LET after == clearHistory(Config)
       IN  /\ after.history = <<>>
           /\ after.guards = guards
           /\ after.enableLog = enableLog

\* an array was returned with an entry in it and pushed onto by its holder,
\* and the buffer was cleared afterwards, with a guard registered and logging
\* on
C11_Witness ==
    /\ snap.held
    /\ snap.mutated
    /\ snap.taken # <<>>
    /\ history = <<>>
    /\ guards # <<>>
    /\ enableLog

\* C12: removeGuard of a guard that is not registered leaves the guard list,
\* the history and the log flag as they are (nothing in it can throw).
C12_RemoveUnregisteredIsNoOp ==
    \A g \in GuardIds :
        g \notin Range(guards) =>
            LET after == removeGuard(Config, g)
            IN  /\ after.guards = guards
                /\ after.history = history
                /\ after.enableLog = enableLog

\* g1 is registered and g2 is not, with a history entry and logging on
C12_Witness ==
    /\ guards = <<"g1">>
    /\ history # <<>>
    /\ enableLog

\* C13: when the host reports failure for a dispatched call, the caller's fail
\* callback is invoked once, with the very error of the host, and its success
\* callback is not invoked.
C13_HostErrorForwardedVerbatim ==
    \A c \in CallIds :
        calls[c].host = "fail" =>
            /\ Invocations(calls[c].cbs, "fail") = <<[cb |-> "fail", arg |-> calls[c].hostErr]>>
            /\ Invocations(calls[c].cbs, "success") = <<>>

\* the host failed a redirectTo with hostErrB
C13_Witness ==
    \E c \in CallIds :
        /\ calls[c].host = "fail"
        /\ calls[c].hostErr = "hostErrB"
        /\ TypeOf(calls[c].req) = "redirectTo"

C15_UnknownTypeKeepsHistory ==
    [][\A c \in CallIds :
          (calls'[c] # calls[c] /\ calls'[c].req # 0
             /\ TypeOf(calls'[c].req) \notin KnownTypes) => history' = history]_vars

\* C16: the host's switchTab is given the url exactly as passed to navigate,
\* also when params were passed along.
C16_SwitchTabRawUrl ==
    \A c \in CallIds :
        (calls[c].req # 0 /\ Requests[calls[c].req].type = "switchTab"
           /\ calls[c].hostCalls # <<>>) =>
            /\ Len(calls[c].hostCalls) = 1
            /\ calls[c].hostCalls[1].prim = "switchTab"
            /\ calls[c].hostCalls[1].hasUrl
            /\ calls[c].hostCalls[1].url = Requests[calls[c].req].url

\* switchTab to /pages/home was dispatched for a call that passed params
C16_Witness ==
    \E c \in CallIds :
        /\ calls[c].req # 0
        /\ Requests[calls[c].req].type = "switchTab"
        /\ Requests[calls[c].req].params # <<>>
        /\ calls[c].hostCalls # <<>>
        /\ calls[c].hostCalls[1].url = PathHome

\* the primitive a navigateTo / redirectTo / reLaunch request must end at
PrimitiveOf(r) ==
    IF Requests[r].type = "undefined" THEN "navigateTo" ELSE Requests[r].type

\* C17: an approved call of type navigateTo (also by default), redirectTo or
\* reLaunch has called exactly one host primitive, the one of its type, with
\* the built URL (path plus encoded params).
C17_OpenReplaceResetDispatch ==
    \A c \in CallIds :
        (calls[c].req # 0
           /\ Requests[calls[c].req].type \in {"undefined", "navigateTo", "redirectTo", "reLaunch"}
           /\ calls[c].pc \in {"dispatched", "done"}
           /\ calls[c].verdict = "true") =>
            /\ Len(calls[c].hostCalls) = 1
            /\ calls[c].hostCalls[1].prim = PrimitiveOf(calls[c].req)
            /\ calls[c].hostCalls[1].hasUrl
            /\ calls[c].hostCalls[1].url =
                  buildUrl(Requests[calls[c].req].url, Requests[calls[c].req].params)

\* /pages/detail with {id: 123} and no type reached uni.navigateTo as
\* /pages/detail?id=123
C17_Witness ==
    \E c \in CallIds :
        /\ calls[c].req = 1
        /\ calls[c].hostCalls =
              <<[prim |-> "navigateTo", hasUrl |-> TRUE,
                 url |-> PathDetail \o <<"?", "i", "d", "=", "1", "2", "3">>, delta |-> 0]>>

\* C18: no entry point reaches a host primitive without the guards' consent:
\* every navigate call that called the host had the verdict true, and a call
\* of navigateBack or navigateBackTo made while a guard is registered has
\* called no host primitive by the time it first returns to its caller (the
\* guard has not been awaited yet).
C18_EntryPointsRunGuards ==
    /\ [](\A c \in CallIds : calls[c].hostCalls # <<>> => calls[c].verdict = "true")
    /\ [][(direct.pc = "idle" /\ direct'.pc # "idle"
             /\ direct'.entry \in {"navigateBack", "navigateBackTo"}
             /\ guards # <<>>) => direct'.hostCalls = <<>>]_vars

\* the entries of the page stack that navigateBackTo(url) is looking for
Matching(url) ==
    {i \in 1..Len(pages) : url # <<>> /\ Head(url) = "/" /\ Tail(url) = pages[i]}

\* C19: navigateBackTo(url) on a stack of depth d whose first page with that
\* path is at (0-based) index i: with d - 1 - i > 0 the host's navigateBack
\* has been called exactly once, with delta d - 1 - i, and the promise
\* follows the host's report (pending, fulfilled, or rejected with the host's
\* error); with d - 1 - i = 0 there is no host call and the promise is
\* fulfilled.
C19_BackToStepCount ==
    (direct.entry = "navigateBackTo" /\ Matching(direct.target) # {}) =>
        LET first == CHOOSE i \in Matching(direct.target) :
                         \A j \in Matching(direct.target) : i <= j
            steps == Len(pages) - first
        IN  IF steps > 0
            THEN /\ direct.hostCalls = <<[prim |-> "navigateBack", hasUrl |-> FALSE,
                                          url |-> <<>>, delta |-> steps]>>
                 /\ direct.host = "pending" => direct.promise = "pending"
                 /\ direct.host = "success" => direct.promise = "fulfilled"
                 /\ direct.host = "fail" =>
                       direct.promise = "rejected" /\ direct.reason = direct.hostErr
            ELSE /\ direct.hostCalls = <<>>
                 /\ direct.host = "none"
                 /\ direct.promise = "fulfilled"

\* from the third page back to /pages/home at the bottom: two steps, and the
\* host has reported success
C19_Witness ==
    /\ direct.entry = "navigateBackTo"
    /\ direct.target = PathHome
    /\ pages = <<RouteHome, RouteDetail, RouteItem>>
    /\ direct.hostCalls # <<>>
    /\ direct.hostCalls[1].delta = 2
    /\ direct.host = "success"

\* C20: navigateBackTo(url) on a stack without a page of that path, the empty
\* stack included, is rejected as target-not-found and has called no host
\* primitive.
C20_BackToMissingTarget ==
    (direct.entry = "navigateBackTo" /\ Matching(direct.target) = {}) =>
        /\ direct.promise = "rejected"
        /\ direct.reason = "TargetPageNotFound"
        /\ direct.hostCalls = <<>>
        /\ direct.host = "none"

\* /i is looked for on a stack of two other pages
C20_Witness ==
    /\ direct.entry = "navigateBackTo"
    /\ direct.target = PathItem
    /\ pages = <<RouteHome, RouteDetail>>
    /\ direct.promise = "rejected"

\* the calls that passed the guards and went on to record and dispatch
Approved == {c \in CallIds : calls[c].verdict = "true" /\ calls[c].pc \in {"dispatched", "done"}}

\* the URL a call was asked to go to, built from its own request
BuiltFor(c) == buildUrl(Requests[calls[c].req].url, Requests[calls[c].req].params)

\* C21: with navigate calls overlapping in any way, the history consists of
\* exactly one entry per call that passed the guards, each the URL built from
\* that call's own request (no write is lost, doubled or taken from another
\* call), and each such call of a known type has dispatched its own
\* destination and type, once.
C21_OverlappingCallsKeepTheirOwn ==
    /\ \E f \in [1..Len(history) -> Approved] :
          /\ \A c \in Approved : \E i \in 1..Len(history) : f[i] = c
          /\ \A i, j \in 1..Len(history) : f[i] = f[j] => i = j
          /\ \A i \in 1..Len(history) : history[i] = BuiltFor(f[i])
    /\ \A c \in Approved :
          LET r == Requests[calls[c].req]
              type == IF r.type = "undefined" THEN "navigateTo" ELSE r.type
          IN  type \in KnownTypes =>
                /\ Len(calls[c].hostCalls) = 1
                /\ calls[c].hostCalls[1].prim = type
                /\ calls[c].hostCalls[1].hasUrl =>
                      calls[c].hostCalls[1].url =
                          IF type = "switchTab" THEN r.url ELSE BuiltFor(c)

\* both calls are in flight, waiting for the host, after passing a guard;
\* c2's URL was recorded before c1's
C21_Witness ==
    /\ calls["c1"].req = 1
    /\ calls["c2"].req = 3
    /\ Approved = {"c1", "c2"}
    /\ calls["c1"].pc = "dispatched"
    /\ calls["c2"].pc = "dispatched"
    /\ guards # <<>>
    /\ history = <<BuiltFor("c2"), BuiltFor("c1")>>

\* the text buildUrl encodes for a value: JSON for an object, String() otherwise
Serialized(v) == IF v.kind = "array" THEN JsonStringify(v) ELSE StringOf(v)

\* key=encoded(value) for the entries 1..n of params, '&' between them
RECURSIVE QueryUpTo(_, _)
QueryUpTo(params, n) ==
    LET pair == params[n].key \o <<"=">> \o encodeURIComponent(Serialized(params[n].value))
    IN  IF n = 1 THEN pair ELSE QueryUpTo(params, n - 1) \o <<"&">> \o pair

\* C23: buildUrl returns the path itself for params without keys; otherwise
\* the path, then '?' if the path has no '?' and '&' if it has, then the
\* key=encoded(value) pairs in the order of the entries, '&' between them.
C23_BuildUrlShape ==
    urlJob.pc \in {"built", "parsed"} =>
        LET params == ParamsOf(urlJob.entries)
            hasQuery == \E i \in 1..Len(urlJob.path) : urlJob.path[i] = "?"
        IN  IF params = <<>> THEN urlJob.built = urlJob.path
            ELSE urlJob.built =
                   urlJob.path \o (IF hasQuery THEN <<"&">> ELSE <<"?">>)
                               \o QueryUpTo(params, Len(params))

\* /pages/list?x=1 with {ids: [1, 2], id: 123}
C23_Witness ==
    /\ urlJob.pc = "built"
    /\ urlJob.path = PathQuery
    /\ urlJob.entries = <<3, 1>>
    /\ urlJob.built = PathQuery \o <<"&", "i", "d", "s", "=", "%", "5", "B", "1", "%", "2", "C",
                                     "2", "%", "5", "D", "&", "i", "d", "=", "1", "2", "3">>

\* C24: the object parseUrlParams returns for buildUrl(path, P) has the keys
\* of P, and the text of each value is the text buildUrl encoded for it (the
\* JSON text of an object, the string form of a primitive).
C24_BuildParseRoundTrip ==
    urlJob.pc = "parsed" =>
        LET params == ParamsOf(urlJob.entries)
        IN  /\ {urlJob.parsed[i].key : i \in 1..Len(urlJob.parsed)}
                  = {params[i].key : i \in 1..Len(params)}
            /\ \A i \in 1..Len(params) :
                  \E j \in 1..Len(urlJob.parsed) :
                      /\ urlJob.parsed[j].key = params[i].key
                      /\ urlJob.parsed[j].value.text = Serialized(params[i].value)

\* C25: in the variant without guards, a navigate call whose promise is
\* rejected has had its fail callback invoked once with the rejection's
\* error, and a call whose fail callback was invoked is rejected with the
\* callback's argument.
C25_FailureSurfacesBothWays ==
    direct.entry = "navigate" =>
        /\ direct.promise = "rejected" =>
              Invocations(direct.cbs, "fail") = <<[cb |-> "fail", arg |-> direct.reason]>>
        /\ Invocations(direct.cbs, "fail") # <<>> =>
              /\ direct.promise = "rejected"
              /\ Invocations(direct.cbs, "fail") = <<[cb |-> "fail", arg |-> direct.reason]>>

\* C26: openExternalUrl on a mini-program build in webview (also by default)
\* or redirect mode: without a webviewPath the fail callback gets a
\* missing-path error, the promise is rejected with it and no host primitive
\* is called; with a webviewPath uni.navigateTo is called exactly once and
\* callbacks and promise follow the host's report.
C26_ExternalNeedsWebviewPath ==
    (direct.entry = "openExternalUrl"
       /\ direct.ext.platform = [IS_H5 |-> FALSE, IS_MP |-> TRUE]
       /\ direct.ext.mode \in {"undefined", "webview", "redirect"}) =>
        IF direct.ext.webviewPath = <<>>
        THEN /\ direct.reason \in {"MissingWebviewPath(webview)", "MissingWebviewPath(redirect)"}
             /\ direct.cbs = <<[cb |-> "fail", arg |-> direct.reason]>>
             /\ direct.promise = "rejected"
             /\ direct.hostCalls = <<>>
             /\ direct.host = "none"
        ELSE /\ Len(direct.hostCalls) = 1
             /\ direct.hostCalls[1].prim = "navigateTo"
             /\ direct.host = "pending" => direct.promise = "pending" /\ direct.cbs = <<>>
             /\ direct.host = "success" =>
                   direct.promise = "fulfilled" /\ direct.cbs = <<[cb |-> "success", arg |-> ""]>>
             /\ direct.host = "fail" =>
                   /\ direct.promise = "rejected"
                   /\ direct.reason = direct.hostErr
                   /\ direct.cbs = <<[cb |-> "fail", arg |-> direct.hostErr]>>

\* redirect mode on a mini-program with /wv as webviewPath: the host was
\* asked for /wv?url=https%3A%2F%2Fa.b%3Fc%3D1 and failed
C26_Witness ==
    /\ direct.entry = "openExternalUrl"
    /\ direct.ext.platform.IS_MP
    /\ direct.ext.mode = "redirect"
    /\ direct.host = "fail"
    /\ direct.hostCalls[1].url =
          <<"/", "w", "v", "?", "u", "r", "l", "=", "h", "t", "t", "p", "s", "%", "3", "A",
            "%", "2", "F", "%", "2", "F", "a", ".", "b", "%", "3", "F", "c", "%", "3", "D", "1">>

C28_GuardsThenHistoryThenHost ==
    /\ [](\A c \in CallIds :
            /\ calls[c].pc \in {"idle", "guard", "evaluated"} => calls[c].hostCalls = <<>>
            /\ calls[c].hostCalls # <<>> => calls[c].verdict = "true")
    /\ [][\A c \in CallIds :
            /\ (Resumes(c) /\ calls[c].verdict = "true") =>
                  /\ calls[c].pending = {}
                  /\ Len(calls[c].results) = Len(calls[c].invoked)
                  /\ \A i \in 1..Len(calls[c].results) : calls[c].results[i] = "true"
                  /\ recorded' = Append(recorded, BuiltFor(c))
                  /\ history' # <<>> /\ Last(history') = BuiltFor(c)
            /\ calls'[c].hostCalls # calls[c].hostCalls =>
                  /\ Resumes(c)
                  /\ calls[c].verdict = "true"
                  /\ recorded' # recorded]_vars

\* an approved call, two guards being registered, has appended its entry and
\* is waiting for the host
C28_Witness ==
    \E c \in CallIds :
        /\ calls[c].pc = "dispatched"
        /\ calls[c].verdict = "true"
        /\ Len(guards) = 2
        /\ calls[c].hostCalls # <<>>
        /\ calls[c].host = "pending"
        /\ history # <<>> /\ Last(history) = BuiltFor(c)

\* the navigate requests of type switchTab or navigateBack that carry params
CarriesUnencodable(r) ==
    /\ r # 0
    /\ TypeOf(r) \in {"switchTab", "navigateBack"}
    /\ Requests[r].params # <<>>

\* C30: for a navigate call of type switchTab or navigateBack with non-empty
\* params, the URL handed to the host primitive is the url option as given,
\* and the history entry the call records is that url too: neither holds a
\* query built from the params.
C30_TabAndBackDropParams ==
    /\ [](\A c \in CallIds :
            CarriesUnencodable(calls[c].req) =>
                \A i \in 1..Len(calls[c].hostCalls) :
                    calls[c].hostCalls[i].hasUrl =>
                        calls[c].hostCalls[i].url = Requests[calls[c].req].url)
    /\ [][\A c \in CallIds :
            (CarriesUnencodable(calls[c].req) /\ Resumes(c) /\ recorded' # recorded) =>
                recorded' = Append(recorded, Requests[calls[c].req].url)]_vars

\* C29: when every guard invocation settles and the host reports, a navigate
\* call that was started settles; it has invoked at most one host primitive,
\* once, failed dispatches included, and nothing happens in it once it has
\* settled.
C29_TerminalNoRetry ==
    /\ \A c \in Callers : (calls[c].pc # "idle") ~> (calls[c].pc = "done")
    /\ [](\A c \in Callers : Len(calls[c].hostCalls) <= 1)
    /\ [][\A c \in Callers : calls[c].pc = "done" => calls'[c] = calls[c]]_vars

\* a call whose only dispatch the host failed has settled
C29_Witness ==
    \E c \in Callers :
        /\ calls[c].pc = "done"
        /\ calls[c].host = "fail"
        /\ Len(calls[c].hostCalls) = 1
        /\ calls[c].promise # "pending"

\* what a run's caller, guards and host can see of it: everything but the
\* log flag and the console
Observable(w) == [guards |-> w.guards, history |-> w.history, call |-> w.call]

\* C22: two runs given the same operations and the same guard and host
\* outcomes, whose log flags were set independently, agree at every step on
\* the registry, the history, and the call's guard invocations and verdict,
\* host primitive calls, callbacks and promise; only the console differs.
C22_LoggingDoesNotSteer == Observable(runs["a"]) = Observable(runs["b"])

\* the call was approved and dispatched in both runs; one run logged the
\* transition and the other, its flag off, printed nothing
C22_Witness ==
    /\ runs["a"].enableLog /\ ~runs["b"].enableLog
    /\ runs["a"].console = LogNavigate
    /\ runs["b"].console = <<>>
    /\ runs["a"].call.pc = "dispatched"
    /\ runs["b"].call.hostCalls # <<>>
    /\ runs["b"].history = <<runs["b"].call.fullUrl>>
    /\ runs["b"].guards # <<>>

\* C31: an approved navigate call of type navigateBack has called the host's
\* navigateBack once, with delta 1 and no url, whatever url and params it was
\* given; navigateBack(options) has called it with the delta of its options,
\* and with 1 when they give none.
C31_BackStepCount ==
    /\ \A c \in Approved :
          TypeOf(calls[c].req) = "navigateBack" =>
              calls[c].hostCalls =
                  <<[prim |-> "navigateBack", hasUrl |-> FALSE, url |-> <<>>, delta |-> 1]>>
    /\ direct.entry = "navigateBack" =>
          direct.hostCalls =
              <<[prim |-> "navigateBack", hasUrl |-> FALSE, url |-> <<>>,
                 delta |-> IF direct.opt.given THEN direct.opt.delta ELSE 1]>>

\* a navigate call of type navigateBack with a url and params has been
\* dispatched, and navigateBack() was called without options
C31_Witness ==
    \E c \in CallIds :
        /\ c \in Approved
        /\ TypeOf(calls[c].req) = "navigateBack"
        /\ Requests[calls[c].req].params # <<>>
        /\ Includes(calls[c].fullUrl, "?")
        /\ calls[c].hostCalls[1].delta = 1
        /\ direct.entry = "navigateBack"
        /\ ~direct.opt.given
        /\ direct.hostCalls[1].delta = 1

\* the number of positions of a sequence that hold x
Occurrences(seq, x) == Cardinality({i \in DOMAIN seq : seq[i] = x})

\* executeGuards returns true to the call c in this step
ReturnsTrue(c) ==
    /\ calls[c].pc # "evaluated"
    /\ calls'[c].pc = "evaluated"
    /\ calls'[c].verdict = "true"

C33_SuspendedLoopSeesRegistry ==
    [][\A c \in CallIds :
          calls[c].pc = "guard" =>
              /\ (calls'[c].invoked # calls[c].invoked) =>
                    /\ calls[c].idx + 1 <= Len(guards)
                    /\ Last(calls'[c].invoked) = guards[calls[c].idx + 1]
              /\ ReturnsTrue(c) => calls[c].idx >= Len(guards)]_vars

\* C34: an evaluation during which guards were removed (and none cleared)
\* returns true only when it has invoked every registration still in the
\* registry: whatever removeGuard took out at or before the position the
\* evaluation was suspended at, no guard registered behind it is skipped.
C34_RemovalSkipsNoGuard ==
    [][\A c \in CallIds :
          (ReturnsTrue(c) /\ calls[c].live) =>
              \A g \in GuardIds :
                  Occurrences(calls'[c].invoked, g) >= Occurrences(guards, g)]_vars

\* removeGuard(g), k times over
RECURSIVE RemoveTimes(_, _, _)
RemoveTimes(cfg, g, k) ==
    IF k = 0 THEN cfg ELSE RemoveTimes(removeGuard(cfg, g), g, k - 1)

\* C35: removeGuard(g) on a registry holding g takes out the earliest
\* registration of g and nothing else: the elements before it and behind it,
\* later copies of g included, stay in their order; after k calls n - k of
\* the n registrations of g are left, so it takes n calls to remove them all.
C35_RemovesEarliestOnly ==
    /\ [](\A g \in GuardIds :
            LET n     == Occurrences(guards, g)
                after == removeGuard(Config, g).guards
            IN  /\ n > 0 =>
                      \E i \in 1..Len(guards) :
                          /\ guards[i] = g
                          /\ \A j \in 1..(i - 1) : guards[j] # g
                          /\ Len(after) = Len(guards) - 1
                          /\ \A k \in 1..Len(after) :
                                after[k] = IF k < i THEN guards[k] ELSE guards[k + 1]
                /\ \A k \in 0..n :
                      Occurrences(RemoveTimes(Config, g, k).guards, g) = n - k)
    /\ [][(guards' # guards /\ guards' # <<>>) =>
              \E g \in GuardIds : guards' = removeGuard(Config, g).guards]_vars

\* what is left of g1 g2 g1 g2 g1 after one removeGuard(g1): only a removal
\* of the earliest g1 leaves four registrations starting with g2, g1
C35_Witness ==
    /\ guards = <<"g2", "g1", "g2", "g1">>
    /\ removeGuard(Config, "g1").guards = <<"g2", "g2", "g1">>

\* how often a call's callback of that name has been invoked
Times(c, name) == Len(Invocations(calls[c].cbs, name))

\* C36: a navigate call that is over (vetoed by a guard, refused for its
\* unknown type, or answered by the host with success or with failure) has
\* invoked one of success and fail, once, and complete once; until then it
\* has invoked none of the three.
C36_CallbacksExactlyOnce ==
    \A c \in CallIds :
        /\ calls[c].pc = "done" =>
              /\ Times(c, "success") + Times(c, "fail") = 1
              /\ Times(c, "complete") = 1
              /\ Len(calls[c].cbs) = 2
              /\ Times(c, "success") = 1 <=> calls[c].host = "success"
        /\ calls[c].pc # "done" => calls[c].cbs = <<>>

\* one call was vetoed and another one failed at the host
C36_Witness ==
    \E c, e \in CallIds :
        /\ calls[c].pc = "done" /\ calls[c].verdict = "false"
        /\ calls[c].cbs = <<CbFail("GuardRejected"), CbComplete>>
        /\ calls[e].pc = "done" /\ calls[e].host = "fail"
        /\ Times(e, "fail") = 1 /\ Times(e, "complete") = 1

\* C37: whatever storage operations were made, synchronous or asynchronous,
\* a key the memory cache holds has in it the value the host storage holds
\* for that key.
C37_CacheCoherent ==
    \A k \in StoreKeys : cache[k].has => cache[k].value = store[k]

\* C38: a setPath that returns false leaves get(key) returning what it
\* returned before the call (the host answering the read).
C38_SetPathAllOrNothing ==
    [][(lastOp'.op = "setPath" /\ ~lastOp'.ok) =>
          get(cache', store', stats', lastOp'.key, TRUE).result
              = get(cache, store, stats, lastOp'.key, TRUE).result]_vars

\* C39: navigateBackTo(url) on a stack of depth d with several pages of that
\* path goes back to the oldest of them: the host's navigateBack has been
\* called once with delta d - 1 - (smallest matching 0-based index), also
\* when the page on top matches too, and the promise is not fulfilled before
\* the host has reported success.
C39_BackToOldestMatch ==
    (direct.entry = "navigateBackTo" /\ Cardinality(Matching(direct.target)) >= 2) =>
        LET oldest == CHOOSE i \in Matching(direct.target) :
                          \A j \in Matching(direct.target) : i <= j
        IN  /\ Len(direct.hostCalls) = 1
            /\ direct.hostCalls[1].prim = "navigateBack"
            /\ direct.hostCalls[1].delta = Len(pages) - 1 - (oldest - 1)
            /\ direct.hostCalls[1].delta > 0
            /\ direct.promise = "fulfilled" => direct.host = "success"

\* /pages/detail is at the bottom and on top of a stack of three:
\* navigateBackTo('/pages/detail') asked the host to go back two pages
C39_Witness ==
    /\ direct.entry = "navigateBackTo"
    /\ direct.target = PathDetail
    /\ pages = <<RouteDetail, RouteHome, RouteDetail>>
    /\ Len(direct.hostCalls) = 1
    /\ direct.hostCalls[1].delta = 2
    /\ direct.host = "pending"

====
